---- MODULE Spec2Model ----
(***************************************************************************)
(* airlock: the sandbox configuration and lifecycle controller.            *)
(*                                                                         *)
(* Go strings are TLA+ strings; the string functions of the Go standard    *)
(* library the code uses (strings.HasPrefix, strings.SplitN, filepath.Dir, *)
(* filepath.Base, filepath.Join) are operators that compute on them.       *)
(* A YAML file is the record the YAML library decodes it to: every key is  *)
(* an option, <<>> when the file does not mention it and <<v>> when it     *)
(* does. A Go pointer or map that may be nil is an option too.             *)
(***************************************************************************)
EXTENDS Integers, Sequences, FiniteSets, TLC

VARIABLES
    fs,          \* host file system: absolute path -> file
    cwd,         \* working directory of the CLI process
    pathBins,    \* engine binaries found on PATH
    containers,  \* engine state: container name -> [state, run]
    images,      \* engine state: image reference -> inspect record
    pc,          \* per invocation: position in main
    osArgs,      \* per invocation: the command line
    s,           \* per invocation: the stringSlice the -e flag appends to
    envVars,     \* per invocation: package variable envVars
    cfg,         \* per invocation: the loaded *config.Config
    eng,         \* per invocation: the Engine of DetectEngine
    userConfig,  \* per invocation: the *UserConfig of inspectImage
    log,         \* per invocation: engine commands issued, in order
    exit,        \* per invocation: exit status of the process
    prev         \* per process: summary of the invocation before this one

vars == <<fs, cwd, pathBins, containers, images, pc, osArgs, s, envVars,
          cfg, eng, userConfig, log, exit, prev>>

-----------------------------------------------------------------------------
(* Go standard library: strings and path/filepath *)
(* A value that an operator uses more than once is handed to a helper as   *)
(* a parameter, so that it is written, and evaluated, once.                *)

HasPrefix(str, prefix) ==
    Len(str) >= Len(prefix) /\ SubSeq(str, 1, Len(prefix)) = prefix

MinOf(S) == IF S = {} THEN 0 ELSE CHOOSE i \in S : \A j \in S : i <= j
MaxOf(S) == IF S = {} THEN 0 ELSE CHOOSE i \in S : \A j \in S : i >= j

\* strings.IndexByte, 1-based; 0 when c does not occur
IndexByte(str, c) == MinOf({i \in 1..Len(str) : SubSeq(str, i, i) = c})

LastIndexByte(str, c) == MaxOf({i \in 1..Len(str) : SubSeq(str, i, i) = c})

SplitAt(str, i) ==
    IF i = 0 THEN <<str>>
    ELSE <<SubSeq(str, 1, i - 1), SubSeq(str, i + 1, Len(str))>>

\* strings.SplitN(str, "=", 2)
SplitN2(str) == SplitAt(str, IndexByte(str, "="))

IsAbs(p) == HasPrefix(p, "/")

DotIfEmpty(p) == IF p = "" THEN "." ELSE p

TrimSlash(p) ==
    IF Len(p) > 1 /\ SubSeq(p, Len(p), Len(p)) = "/"
    THEN SubSeq(p, 1, Len(p) - 1) ELSE p

\* filepath.Clean on the paths that occur here: a leading "./", a trailing
\* "/" and the empty path
Clean(p) ==
    DotIfEmpty(TrimSlash(IF HasPrefix(p, "./") THEN SubSeq(p, 3, Len(p))
                         ELSE p))

JoinCleaned(a, b, ca, cb) ==
    IF a = "" THEN cb
    ELSE IF b = "" \/ cb = "." THEN ca
    ELSE IF ca = "." THEN cb
    ELSE IF ca = "/" THEN "/" \o cb
    ELSE ca \o "/" \o cb

\* filepath.Join(a, b)
Join(a, b) == JoinCleaned(a, b, Clean(a), Clean(b))

\* filepath.Dir
Dir(p) == Clean(SubSeq(p, 1, LastIndexByte(p, "/")))

LastElement(q) ==
    IF q = "/" THEN "/" ELSE SubSeq(q, LastIndexByte(q, "/") + 1, Len(q))

\* filepath.Base
Base(p) == IF p = "" THEN "." ELSE LastElement(TrimSlash(p))

\* filepath.Abs in the process's working directory wd
Abs(wd, p) == IF IsAbs(p) THEN Clean(p) ELSE Join(wd, p)

\* os.Stat(p) == nil
Stat(files, wd, p) == Abs(wd, p) \in DOMAIN files

-----------------------------------------------------------------------------
(* internal/config *)

None == <<>>
Some(v) == <<v>>

EmptyMap == [k \in {} |-> ""]

\* var c Config
ZeroConfig ==
    [Name |-> "", ProjectDir |-> "", WorkDir |-> "", Image |-> "",
     Build |-> None, Engine |-> "", HomeDir |-> "", CacheDir |-> "",
     Mounts |-> <<>>, Env |-> None]

ZeroBuildConfig == [Context |-> "", Containerfile |-> "", Tag |-> ""]

\* EnvVars.UnmarshalYAML, lines 46-54: one item of a sequence
envItem(m, parts) ==
    (parts[1] :> (IF Len(parts) = 2 THEN parts[2] ELSE "")) @@ m

RECURSIVE envItems(_, _)
envItems(m, rest) ==
    IF rest = <<>> THEN m
    ELSE envItems(envItem(m, SplitN2(Head(rest))), Tail(rest))

\* an UnmarshalYAML that replaces the map instead of adding to it
UnmarshalEnvReplacing(node, e0) ==
    CASE node.kind = "map" -> [err |-> FALSE, e |-> Some(node.m)]
      [] node.kind = "seq" ->
            [err |-> FALSE, e |-> Some(envItems(EmptyMap, node.s))]
      [] OTHER -> [err |-> TRUE, e |-> Some(e0)]

\* a sequence node whose items are mappings (kind "mapseq") fails in
\* value.Decode(&s), lines 42-45; any other node in the default case
UnmarshalEnvInto(node, e0) ==
    CASE node.kind = "map" -> [err |-> FALSE, e |-> Some(node.m @@ e0)]
      [] node.kind = "seq" -> [err |-> FALSE, e |-> Some(envItems(e0, node.s))]
      [] node.kind = "mapseq" -> [err |-> TRUE, e |-> Some(e0)]
      [] OTHER -> [err |-> TRUE, e |-> Some(e0)]

\* EnvVars.UnmarshalYAML: node is the YAML node under the key env, e the
\* map already in the Config (None when nil)
UnmarshalEnv(node, e) ==
    UnmarshalEnvInto(node, IF e = None THEN EmptyMap ELSE e[1])

\* a string field of a YAML mapping decoded over the value old
strField(opt, old) == IF opt = None THEN old ELSE opt[1]

UnmarshalBuildInto(node, b0) ==
    Some([Context |-> strField(node.context, b0.Context),
          Containerfile |-> strField(node.containerfile, b0.Containerfile),
          Tag |-> strField(node.tag, b0.Tag)])

\* yaml.Unmarshal of a build mapping into c.Build
UnmarshalBuild(node, b) ==
    UnmarshalBuildInto(node, IF b = None THEN ZeroBuildConfig ELSE b[1])

\* a decoder that appends a document's mounts to those already decoded
UnmarshalWithAppending(doc, c, env) ==
    [err |-> env.err,
     c |-> [Name |-> strField(doc.name, c.Name),
            ProjectDir |-> strField(doc.projectDir, c.ProjectDir),
            WorkDir |-> strField(doc.workdir, c.WorkDir),
            Image |-> strField(doc.image, c.Image),
            Build |-> IF doc.build = None THEN c.Build
                      ELSE UnmarshalBuild(doc.build[1], c.Build),
            Engine |-> strField(doc.engine, c.Engine),
            HomeDir |-> strField(doc.home, c.HomeDir),
            CacheDir |-> strField(doc.cache, c.CacheDir),
            Mounts |-> IF doc.mounts = None THEN c.Mounts
                       ELSE c.Mounts \o doc.mounts[1],
            Env |-> env.e]]

UnmarshalWith(doc, c, env) ==
    [err |-> env.err,
     c |-> [Name |-> strField(doc.name, c.Name),
            ProjectDir |-> strField(doc.projectDir, c.ProjectDir),
            WorkDir |-> strField(doc.workdir, c.WorkDir),
            Image |-> strField(doc.image, c.Image),
            Build |-> IF doc.build = None THEN c.Build
                      ELSE UnmarshalBuild(doc.build[1], c.Build),
            Engine |-> strField(doc.engine, c.Engine),
            HomeDir |-> strField(doc.home, c.HomeDir),
            CacheDir |-> strField(doc.cache, c.CacheDir),
            Mounts |-> IF doc.mounts = None THEN c.Mounts
                       ELSE doc.mounts[1],
            Env |-> env.e]]

\* yaml.Unmarshal(bytes, &c) for a document doc: a key the document has
\* replaces the field, env is merged by EnvVars.UnmarshalYAML
Unmarshal(doc, c) ==
    UnmarshalWith(doc, c, IF doc.env = None THEN [err |-> FALSE, e |-> c.Env]
                          ELSE UnmarshalEnv(doc.env[1], c.Env))

LowerAlnum == "abcdefghijklmnopqrstuvwxyz0123456789"
Upper == "ABCDEFGHIJKLMNOPQRSTUVWXYZ"

sanitizeRune(r, u) ==
    IF IndexByte(LowerAlnum, r) > 0 THEN r
    ELSE IF u > 0 THEN SubSeq(LowerAlnum, u, u)
    ELSE "-"

RECURSIVE sanitizeName(_)
sanitizeName(str) ==
    IF str = "" THEN ""
    ELSE sanitizeRune(SubSeq(str, 1, 1), IndexByte(Upper, SubSeq(str, 1, 1)))
         \o sanitizeName(SubSeq(str, 2, Len(str)))

sanitizeTag(str) == sanitizeName(str)

ReadAt(files, a) ==
    IF a \in DOMAIN files /\ files[a].kind \in {"yaml", "malformed", "data"}
    THEN [err |-> FALSE, file |-> files[a]]
    ELSE [err |-> TRUE, file |-> [kind |-> "none"]]

\* os.ReadFile(p): the file, or an error
ReadFile(files, wd, p) == ReadAt(files, Abs(wd, p))

\* yaml.Unmarshal(b, &c) for the bytes of a file
UnmarshalFile(file, c) ==
    IF file.kind = "yaml" THEN Unmarshal(file.doc, c)
    ELSE [err |-> TRUE, c |-> c]

LoadError(msg) == [err |-> msg, cfg |-> ZeroConfig]

\* Load, lines 102-112
nameDefaults(c, dir) ==
    [c EXCEPT !.Name = IF @ = "" THEN Base(dir) ELSE @,
              !.ProjectDir = IF @ = "" THEN dir ELSE @,
              !.WorkDir = IF @ = "" THEN "." ELSE @]

\* Load, lines 118-131: the build section a Containerfile gives
containerfileBuild(files, wd, c) ==
    IF c.Image = "" /\ c.Build = None
    THEN IF Stat(files, wd, "Containerfile")
         THEN Some([Context |-> ".", Containerfile |-> "Containerfile",
                    Tag |-> ""])
         ELSE IF Stat(files, wd, "env/Containerfile")
         THEN Some([Context |-> "./env",
                    Containerfile |-> "./env/Containerfile", Tag |-> ""])
         ELSE None
    ELSE c.Build

\* a Load that writes the build defaults over what is configured
buildDefaultsForced(b, name) ==
    [Context |-> ".",
     Containerfile |-> "Containerfile",
     Tag |-> "airlock:" \o sanitizeTag(name)]

\* Load, lines 133-143
buildDefaults(b, name) ==
    [Context |-> IF b.Context = "" THEN "." ELSE b.Context,
     Containerfile |-> IF b.Containerfile = "" THEN "Containerfile"
                       ELSE b.Containerfile,
     Tag |-> IF b.Tag = "" THEN "airlock:" \o sanitizeTag(name) ELSE b.Tag]

\* Load, lines 133-154
otherDefaults(c, build) ==
    [c EXCEPT !.Build = IF build = None THEN None
                        ELSE Some(buildDefaults(build[1], c.Name)),
              !.HomeDir = IF @ = "" THEN "./.airlock/home" ELSE @,
              !.CacheDir = IF @ = "" THEN "./.airlock/cache" ELSE @,
              !.Env = IF @ = None THEN Some(EmptyMap) ELSE @]

\* a Load without the check of lines 114-116
bothConfiguredUnchecked(c) == FALSE

\* Load, lines 114-116: image and build are both configured
bothConfigured(c) == c.Image # "" /\ c.Build # None

\* Load, lines 114-159
checkedDefaults(files, wd, c) ==
    IF bothConfigured(c)
    THEN LoadError("Only one of either Image or Build can be configured")
    ELSE IF c.Name = "" THEN LoadError("name is required")
    ELSE [err |-> "",
          cfg |-> otherDefaults(c, containerfileBuild(files, wd, c))]

\* Load, the defaults: c is the Config after the layers are decoded
LoadDefaults(files, wd, path, c) ==
    checkedDefaults(files, wd, nameDefaults(c, Dir(path)))

\* Load, lines 84-100: the local override at localPath over the decoded base
mergeLocal(files, wd, localPath, b, u1, lb) ==
    IF b.err \/ u1.err THEN u1
    ELSE IF Stat(files, wd, localPath) /\ ~lb.err
    THEN UnmarshalFile(lb.file, u1.c)
    ELSE u1

loadLayers(files, wd, path, localPath, b, u1) ==
    [read |-> b.err, parse |-> u1.err,
     u2 |-> mergeLocal(files, wd, localPath, b, u1,
                       ReadFile(files, wd, localPath))]

loadResult(files, wd, path, l) ==
    IF l.read THEN LoadError("read")
    ELSE IF l.parse THEN LoadError("parse")
    ELSE IF l.u2.err THEN LoadError("failed to parse local config")
    ELSE LoadDefaults(files, wd, path, l.u2.c)

loadBase(files, wd, path, b) ==
    loadResult(files, wd, path,
               loadLayers(files, wd, path,
                          Join(Join(Dir(path), ".airlock"),
                               "airlock.local.yaml"),
                          b, UnmarshalFile(b.file, ZeroConfig)))

\* Load(path) in working directory wd on the file system files
Load(files, wd, path) == loadBase(files, wd, path, ReadFile(files, wd, path))

loadFound(files, wd, cfgFile) ==
    IF cfgFile = "" THEN LoadError("no airlock.yaml found")
    ELSE Load(files, wd, cfgFile)

\* defaultYAML(name): the document InitFiles writes as airlock.yaml; its
\* env is a sequence with the one item `EXAMPLE_VAR: "hello"`, a mapping
defaultYAML(name) ==
    [name |-> Some(name), projectDir |-> None, workdir |-> Some("."),
     image |-> None,
     build |-> Some([context |-> Some("."),
                     containerfile |-> Some("./Containerfile"),
                     tag |-> Some("airlock:" \o name)]),
     engine |-> Some("podman"), home |-> Some("./.airlock/home"),
     cache |-> Some("./.airlock/cache"),
     mounts |-> Some(<<[Source |-> ".", Target |-> "/workspace",
                        Mode |-> "rw"]>>),
     env |-> Some([kind |-> "mapseq",
                   items |-> <<("EXAMPLE_VAR" :> "hello")>>]),
     ports |-> None]

\* defaultLocalYAML(): env is a mapping with the one key vars, which has
\* only comments under it
defaultLocalYAML ==
    [name |-> None, projectDir |-> None, workdir |-> None, image |-> None,
     build |-> None, engine |-> None, home |-> None, cache |-> None,
     mounts |-> None, env |-> Some([kind |-> "map", m |-> ("vars" :> "")]),
     ports |-> None]

\* ensureLineInFile(path, ".airlock/")
ensureLineInFile(files, a) ==
    a :> [kind |-> "text",
          lines |-> {".airlock/"}
                    \cup (IF a \in DOMAIN files /\ files[a].kind = "text"
                          THEN files[a].lines ELSE {})]

\* InitFiles(dir, name) for the absolute directory d, every write
\* succeeding: a file that exists is kept, .gitignore is completed
InitFilesIn(files, d, name) ==
    ensureLineInFile(files, Join(d, ".gitignore"))
    @@ files
    @@ (Join(d, "airlock.yaml") :> [kind |-> "yaml", doc |-> defaultYAML(name)])
    @@ (Join(d, "Containerfile") :> [kind |-> "data"])
    @@ (Join(Join(d, ".airlock"), "home") :> [kind |-> "dir"])
    @@ (Join(Join(d, ".airlock"), "cache") :> [kind |-> "dir"])
    @@ (Join(Join(d, ".airlock"), "airlock.local.yaml")
            :> [kind |-> "yaml", doc |-> defaultLocalYAML])

InitFiles(files, wd, dir, name) ==
    InitFilesIn(files, Abs(wd, dir), IF name = "" THEN "my-project" ELSE name)

\* loadConfig(path) of main
loadConfig(files, wd, path) ==
    loadFound(files, wd,
              IF path # "" THEN path
              ELSE IF Stat(files, wd, "airlock.yaml") THEN "airlock.yaml"
              ELSE IF Stat(files, wd, "airlock.yml") THEN "airlock.yml"
              ELSE "")

-----------------------------------------------------------------------------
(* internal/container *)

\* a DetectEngine that falls back to any engine found
DetectEngineAny(preferred, bins) ==
    IF preferred \in {"podman", "docker"} /\ preferred \in bins
    THEN [err |-> FALSE, engine |-> preferred]
    ELSE IF "podman" \in bins THEN [err |-> FALSE, engine |-> "podman"]
    ELSE IF "docker" \in bins THEN [err |-> FALSE, engine |-> "docker"]
    ELSE [err |-> TRUE, engine |-> ""]

\* DetectEngine(preferred) with the binaries bins on PATH
DetectEngine(preferred, bins) ==
    IF preferred # ""
    THEN IF preferred = "podman" /\ "podman" \in bins
         THEN [err |-> FALSE, engine |-> "podman"]
         ELSE IF preferred = "docker" /\ "docker" \in bins
         THEN [err |-> FALSE, engine |-> "docker"]
         ELSE [err |-> TRUE, engine |-> ""]
    ELSE IF "podman" \in bins THEN [err |-> FALSE, engine |-> "podman"]
    ELSE IF "docker" \in bins THEN [err |-> FALSE, engine |-> "docker"]
    ELSE [err |-> TRUE, engine |-> ""]

containerName(c) == "airlock-" \o c.Name

resolveHostPath(projectAbs, p) ==
    IF IsAbs(p) THEN p ELSE Join(projectAbs, p)

\* image := cfg.Image; if cfg.Build != nil { image = cfg.Build.Tag }
imageOf(c) == IF c.Build # None THEN c.Build[1].Tag ELSE c.Image

NilUserConfig == [Name |-> "", Home |-> "", WorkDir |-> "", Env |-> <<>>]

\* an inspectImage that puts every user's home under /home
userConfigUnderHome(userStr, config) ==
    [Name |-> userStr,
     Home |-> IF userStr # "" THEN "/home/" \o userStr ELSE "",
     WorkDir |-> config.WorkingDir,
     Env |-> config.Env]

\* inspectImage, lines 219-238: the UserConfig for the user userStr
userConfigOf(userStr, config) ==
    [Name |-> userStr,
     Home |-> IF userStr = "root" THEN "/root"
              ELSE IF userStr # "" THEN "/home/" \o userStr
              ELSE "",
     WorkDir |-> config.WorkingDir,
     Env |-> config.Env]

\* inspectImage: out is what `image inspect --format json` gave:
\* status "fail" (the command failed), "garbage" (no JSON array), "empty"
\* (the array []), or "data" with the first record's Config in out.config
inspectImage(out) ==
    IF out.status # "data" THEN [err |-> TRUE, u |-> NilUserConfig]
    ELSE [err |-> FALSE,
          u |-> userConfigOf(IF out.config.User = "" THEN "1000"
                             ELSE out.config.User, out.config)]

\* a containerExists that reports every container as missing
containerExistsNever(ran) == FALSE

\* containerExists: ran says whether `container inspect` exited 0
containerExists(ran) == ran

\* a containerRunning that does not read the engine's answer
containerRunningAlways(out) == TRUE

\* containerRunning: out is [err, text] of `inspect -f {{.State.Running}}`
containerRunning(out) == IF out.err THEN FALSE ELSE out.text = "true"

\* createContainer, lines 268-273: one entry of the image's Env
imageEnvItem(m, parts) ==
    IF Len(parts) = 2 THEN (parts[1] :> parts[2]) @@ m ELSE m

RECURSIVE imageEnv(_, _)
imageEnv(m, rest) ==
    IF rest = <<>> THEN m
    ELSE imageEnv(imageEnvItem(m, SplitN2(Head(rest))), Tail(rest))

\* a createContainer that keeps the image's value of a key cfg.Env also has
configEnvYielding(c, m) == IF c.Env = None THEN m ELSE m @@ c.Env[1]

\* createContainer, lines 275-277: cfg.Env over the image's Env
configEnv(c, m) == IF c.Env = None THEN m ELSE c.Env[1] @@ m

\* a createContainer that lets the composed environment win
identityEnvYielding(u, m) ==
    m
    @@ ("WORKDIR" :> u.WorkDir)
    @@ ("XDG_DATA_HOME" :> u.Home \o "/.local/share")
    @@ ("XDG_CONFIG_HOME" :> u.Home \o "/.config")
    @@ ("XDG_CACHE_HOME" :> u.Home \o "/.cache")
    @@ ("HOME" :> u.Home)

\* createContainer, lines 280-284: the identity variables, forced
identityEnv(u, m) ==
    ("WORKDIR" :> u.WorkDir)
    @@ ("XDG_DATA_HOME" :> u.Home \o "/.local/share")
    @@ ("XDG_CONFIG_HOME" :> u.Home \o "/.config")
    @@ ("XDG_CACHE_HOME" :> u.Home \o "/.cache")
    @@ ("HOME" :> u.Home)
    @@ m

\* createContainer, the environment map (lines 266-285)
envMapOf(c, u) == identityEnv(u, configEnv(c, imageEnv(EmptyMap, u.Env)))

addArg(rest, arg) ==
    IF arg \in DOMAIN rest THEN [rest EXCEPT ![arg] = @ + 1]
    ELSE (arg :> 1) @@ rest

RECURSIVE envArgsFrom(_, _)
envArgsFrom(m, k) ==
    addArg(IF DOMAIN m = {k} THEN EmptyMap
           ELSE envArgsFrom([x \in DOMAIN m \ {k} |-> m[x]],
                            CHOOSE x \in DOMAIN m \ {k} : TRUE),
           k \o "=" \o m[k])

\* createContainer, the -e arguments (lines 287-290): one per key of the
\* map, in the order Go happens to range over it, so a bag of the strings
\* KEY=VALUE
envArgsOf(m) ==
    IF DOMAIN m = {} THEN EmptyMap
    ELSE envArgsFrom(m, CHOOSE x \in DOMAIN m : TRUE)

\* a createContainer that passes the source of a mount as it is declared
mountArgAsDeclared(absProjectDir, m) ==
    m.Source \o ":" \o m.Target \o ":"
    \o (IF m.Mode = "" THEN "rw" ELSE m.Mode) \o ",Z"

\* createContainer, lines 299-306: the -v argument of one explicit mount
mountArg(absProjectDir, m) ==
    resolveHostPath(absProjectDir, m.Source) \o ":" \o m.Target \o ":"
    \o (IF m.Mode = "" THEN "rw" ELSE m.Mode) \o ",Z"

\* a createContainer that always adds the default workdir mount
workdirUnmountedAlways(c, u) == TRUE

\* createContainer, lines 308-313: no explicit mount targets the workdir
workdirUnmounted(c, u) ==
    \A i \in 1..Len(c.Mounts) : c.Mounts[i].Target # u.WorkDir

\* a createContainer that appends the workdir mount after the masking mount
mountArgsWorkdirLast(c, u, absProjectDir, homeHost, cacheHost, workDirHost) ==
    <<homeHost \o ":" \o u.Home \o ":Z",
      cacheHost \o ":" \o u.Home \o "/.cache:Z">>
    \o [i \in 1..Len(c.Mounts) |-> mountArg(absProjectDir, c.Mounts[i])]
    \o <<u.WorkDir \o "/.airlock">>
    \o (IF workdirUnmounted(c, u)
        THEN <<workDirHost \o ":" \o u.WorkDir \o ":Z">> ELSE <<>>)

\* createContainer, the -v arguments in order (lines 292-316)
mountArgsOf(c, u, absProjectDir, homeHost, cacheHost, workDirHost) ==
    (IF workdirUnmounted(c, u)
     THEN <<workDirHost \o ":" \o u.WorkDir \o ":Z">> ELSE <<>>)
    \o <<homeHost \o ":" \o u.Home \o ":Z",
         cacheHost \o ":" \o u.Home \o "/.cache:Z">>
    \o [i \in 1..Len(c.Mounts) |-> mountArg(absProjectDir, c.Mounts[i])]
    \o <<u.WorkDir \o "/.airlock">>

\* createContainer, the `run` command line: e the -e arguments, v the -v
\* arguments, p the -p arguments (lines 318-337 append none), the other
\* options by name
createContainer(engine, c, u, absProjectDir, homeHost, cacheHost, workDirHost) ==
    [op |-> "run",
     d |-> TRUE,
     name |-> containerName(c),
     w |-> u.WorkDir,
     user |-> u.Name,
     userns |-> IF engine = "podman" THEN "keep-id" ELSE "",
     e |-> envArgsOf(envMapOf(c, u)),
     v |-> mountArgsOf(c, u, absProjectDir, homeHost, cacheHost,
                       workDirHost),
     p |-> <<>>,
     hostname |-> "airlock",
     image |-> imageOf(c)]

\* for _, e := range env { args = append(args, "-e", e) }
RECURSIVE forwardEnv(_)
forwardEnv(env) ==
    IF env = <<>> THEN <<>>
    ELSE <<"-e", Head(env)>> \o forwardEnv(Tail(env))

\* Enter and Exec, the `exec` command line (lines 108-113, 125-131)
execArgs(u, env, c, command) ==
    <<"exec", "-it", "--user", u.Name>> \o forwardEnv(env)
    \o <<containerName(c)>> \o command

\* a Down that takes an explicit target as it is given
downTargetBare(c, name) == IF name = "" THEN containerName(c) ELSE name

\* Down, the container it acts on (lines 135-140)
downTarget(c, name) ==
    IF name = "" THEN containerName(c)
    ELSE IF ~HasPrefix(name, "airlock-") THEN "airlock-" \o name
    ELSE name


-----------------------------------------------------------------------------
(* main: one CLI invocation per process, one step per engine command *)

Procs == {1, 2}

\* what is kept of an invocation once the next one starts: its command, its
\* exit status, whether it issued `run`, and whether the engine failed a
\* command that the engine's state allowed
Summary(line, status, issued) ==
    [cmd |-> line.cmd, exit |-> status,
     ran |-> \E i \in 1..Len(issued) : issued[i].op = "run",
     fault |-> \E i \in 1..Len(issued) : issued[i].fault]

NoSummary == [cmd |-> "", exit |-> 0, ran |-> FALSE, fault |-> FALSE]

\* stringSliceFlag(name, usage): registers &s0 with the flag package and
\* returns the slice s0 holds at that moment
stringSliceFlag(s0) == s0

\* stringSlice.Set, once per -e on the command line, in order
RECURSIVE parseFlags(_, _)
parseFlags(s0, values) ==
    IF values = <<>> THEN s0
    ELSE parseFlags(Append(s0, Head(values)), Tail(values))

absProj(p) == Abs(cwd, cfg[p].ProjectDir)
homeHost(p) == resolveHostPath(absProj(p), cfg[p].HomeDir)
cacheHost(p) == resolveHostPath(absProj(p), cfg[p].CacheDir)
workDirHost(p) == resolveHostPath(absProj(p), cfg[p].WorkDir)

Issue(p, entry) == log' = [log EXCEPT ![p] = Append(@, entry)]
Goto(p, label) == pc' = [pc EXCEPT ![p] = label]
Exit(p, status) ==
    /\ pc' = [pc EXCEPT ![p] = "done"]
    /\ exit' = [exit EXCEPT ![p] = status]

\* the process starts: package initialisation (lines 47-51)
Invoke(p, line) ==
    /\ pc[p] \in {"idle", "done"}
    /\ prev' = [prev EXCEPT ![p] =
                   IF pc[p] = "done"
                   THEN Summary(osArgs[p], exit[p], log[p])
                   ELSE @]
    /\ osArgs' = [osArgs EXCEPT ![p] = line]
    /\ s' = [s EXCEPT ![p] = <<>>]
    /\ envVars' = [envVars EXCEPT ![p] = stringSliceFlag(<<>>)]
    /\ cfg' = [cfg EXCEPT ![p] = ZeroConfig]
    /\ eng' = [eng EXCEPT ![p] = ""]
    /\ userConfig' = [userConfig EXCEPT ![p] = NilUserConfig]
    /\ log' = [log EXCEPT ![p] = <<>>]
    /\ exit' = [exit EXCEPT ![p] = 0]
    /\ pc' = [pc EXCEPT ![p] = "parse"]
    /\ UNCHANGED <<fs, cwd, pathBins, containers, images>>

\* main, lines 58-88: flag.Parse and the switch on the command
MainParse(p) ==
    /\ pc[p] = "parse"
    /\ s' = [s EXCEPT ![p] = parseFlags(@, osArgs[p].e)]
    /\ IF osArgs[p].cmd \in {"list", "down", "info", "up", "enter", "exec"}
       THEN Goto(p, "load") /\ UNCHANGED exit
       ELSE IF osArgs[p].cmd = "init"
       THEN Goto(p, "init") /\ UNCHANGED exit
       ELSE IF osArgs[p].cmd \in {"help", "version"}
       THEN Exit(p, 0)
       ELSE Exit(p, 2)
    /\ UNCHANGED <<fs, cwd, pathBins, containers, images, osArgs, envVars,
                   cfg, eng, userConfig, log, prev>>

\* main, lines 77-86: init [name]; InitFiles writes everything or fails
MainInit(p) ==
    /\ pc[p] = "init"
    /\ \E ok \in BOOLEAN :
         IF ok
         THEN /\ fs' = InitFiles(fs, cwd, ".",
                                 IF osArgs[p].args = <<>> THEN ""
                                 ELSE osArgs[p].args[1])
              /\ Exit(p, 0)
         ELSE Exit(p, 1) /\ UNCHANGED fs
    /\ UNCHANGED <<cwd, pathBins, containers, images, osArgs, s, envVars,
                   cfg, eng, userConfig, log, prev>>

\* main, lines 89-93: r is what loadConfig returned
Loaded(p, r) ==
    IF r.err # ""
    THEN Exit(p, 1) /\ UNCHANGED cfg
    ELSE /\ cfg' = [cfg EXCEPT ![p] = r.cfg]
         /\ Goto(p, "detect")
         /\ UNCHANGED exit

\* main, lines 89-93
MainLoadConfig(p) ==
    /\ pc[p] = "load"
    /\ Loaded(p, loadConfig(fs, cwd, osArgs[p].config))
    /\ UNCHANGED <<fs, cwd, pathBins, containers, images, osArgs, s, envVars,
                   eng, userConfig, log, prev>>

\* main, lines 95-105 and the first lines of each case: r is what
\* DetectEngine returned, c the command
Detected(p, r, c) ==
    IF r.err
    THEN Exit(p, 1) /\ UNCHANGED eng
    ELSE /\ eng' = [eng EXCEPT ![p] = r.engine]
         /\ IF c = "exec" /\ osArgs[p].args = <<>>
            THEN Exit(p, 2)
            ELSE /\ Goto(p, CASE c = "list" -> "list"
                              [] c = "down" -> "down_stop"
                              [] c = "info" -> "info"
                              [] c = "enter" -> "enter_inspect"
                              [] OTHER -> "up_build")
                 /\ UNCHANGED exit

\* main, lines 95-105 and the first lines of each case
MainDetectEngine(p) ==
    /\ pc[p] = "detect"
    /\ Detected(p, DetectEngine(cfg[p].Engine, pathBins), osArgs[p].cmd)
    /\ UNCHANGED <<fs, cwd, pathBins, containers, images, osArgs, s, envVars,
                   cfg, userConfig, log, prev>>


\* what `image inspect --format json ref` can give
InspectOutputs(ref) ==
    {[status |-> "fail"], [status |-> "garbage"], [status |-> "empty"]}
    \cup (IF ref \in DOMAIN images
          THEN {[status |-> "data", config |-> images[ref]]} ELSE {})

\* the image configurations a build of the project's Containerfile can give
BuildOutputs ==
    {[User |-> "ubuntu", WorkingDir |-> "/workspace",
      Env |-> <<"PATH=/usr/bin", "HOME=/home/ubuntu">>],
     [User |-> "", WorkingDir |-> "", Env |-> <<>>]}

\* Up returned nil: main, lines 135-138 and 154-158
UpReturned(p) ==
    IF osArgs[p].cmd = "exec"
    THEN Goto(p, "exec_inspect") /\ UNCHANGED exit
    ELSE Exit(p, 0)

\* Up, lines 53-57: buildImage
UpBuild(p) ==
    /\ pc[p] = "up_build"
    /\ IF cfg[p].Build = None
       THEN Goto(p, "up_inspect") /\ UNCHANGED <<images, log, exit>>
       ELSE \E ok \in BOOLEAN, built \in BuildOutputs :
              /\ Issue(p, [op |-> "build", name |-> cfg[p].Build[1].Tag,
                           f |-> resolveHostPath(absProj(p),
                                     cfg[p].Build[1].Containerfile),
                           context |-> resolveHostPath(absProj(p),
                                           cfg[p].Build[1].Context),
                           ok |-> ok, fault |-> ~ok])
              /\ IF ok
                 THEN /\ images' = (cfg[p].Build[1].Tag :> built) @@ images
                      /\ Goto(p, "up_inspect")
                      /\ UNCHANGED exit
                 ELSE Exit(p, 1) /\ UNCHANGED images
    /\ UNCHANGED <<fs, cwd, pathBins, containers, osArgs, s, envVars, cfg,
                   eng, userConfig, prev>>

\* a caller of inspectImage that goes on whatever it returned
InspectedUnchecked(p, ref, r, next) ==
    /\ Issue(p, [op |-> "image inspect", name |-> ref, ok |-> ~r.err,
                 fault |-> r.err /\ ref \in DOMAIN images])
    /\ userConfig' = [userConfig EXCEPT ![p] = r.u]
    /\ Goto(p, next)
    /\ UNCHANGED exit

\* the caller of inspectImage: r is what it returned for the image ref
Inspected(p, ref, r, next) ==
    /\ Issue(p, [op |-> "image inspect", name |-> ref, ok |-> ~r.err,
                 fault |-> r.err /\ ref \in DOMAIN images])
    /\ IF r.err
       THEN Exit(p, 1) /\ UNCHANGED userConfig
       ELSE /\ userConfig' = [userConfig EXCEPT ![p] = r.u]
            /\ Goto(p, next)
            /\ UNCHANGED exit

\* Up, lines 59-67, Enter, lines 100-107, and Exec, lines 117-124:
\* inspectImage of the configured image
InspectFor(p, here, next) ==
    /\ pc[p] = here
    /\ \E out \in InspectOutputs(imageOf(cfg[p])) :
         Inspected(p, imageOf(cfg[p]), inspectImage(out), next)
    /\ UNCHANGED <<fs, cwd, pathBins, containers, images, osArgs, s, envVars,
                   cfg, eng, prev>>

\* Up, lines 59-67: inspectImage
UpInspect(p) == InspectFor(p, "up_inspect", "up_mkdir")

\* Up, lines 69-77: os.MkdirAll of the home and cache directories
UpMkdir(p) ==
    /\ pc[p] = "up_mkdir"
    /\ \E ok \in BOOLEAN :
         IF ok
         THEN /\ fs' = fs @@ (homeHost(p) :> [kind |-> "dir"])
                          @@ (cacheHost(p) :> [kind |-> "dir"])
              /\ Goto(p, "up_exists")
              /\ UNCHANGED exit
         ELSE Exit(p, 1) /\ UNCHANGED fs
    /\ UNCHANGED <<cwd, pathBins, containers, images, osArgs, s, envVars,
                   cfg, eng, userConfig, log, prev>>

\* Up, lines 79-83: containerExists
UpExists(p) ==
    /\ pc[p] = "up_exists"
    /\ \E ran \in {containerName(cfg[p]) \in DOMAIN containers, FALSE} :
         /\ Issue(p, [op |-> "container inspect",
                      name |-> containerName(cfg[p]), ok |-> ran,
                      fault |-> ran # (containerName(cfg[p])
                                        \in DOMAIN containers)])
         /\ IF ~containerExists(ran)
            THEN Goto(p, "up_create")
            ELSE Goto(p, "up_running")
    /\ UNCHANGED <<fs, cwd, pathBins, containers, images, osArgs, s, envVars,
                   cfg, eng, userConfig, exit, prev>>

\* the engine's `run -d`: it fails when the name is taken, and may fail
\* anyway; on success the container exists and runs
EngineRun(p, run, free) ==
    \E ok \in {free, FALSE} :
      /\ Issue(p, [op |-> "run", name |-> run.name, args |-> run,
                   ok |-> ok, fault |-> free /\ ~ok])
      /\ IF ok
         THEN /\ containers' = (run.name :> [state |-> "Running",
                                             run |-> run])
                               @@ containers
              /\ Goto(p, "up_running")
              /\ UNCHANGED exit
         ELSE Exit(p, 1) /\ UNCHANGED containers

\* Up, lines 84-86: createContainer
UpCreate(p) ==
    /\ pc[p] = "up_create"
    /\ EngineRun(p, createContainer(eng[p], cfg[p], userConfig[p], absProj(p),
                                    homeHost(p), cacheHost(p),
                                    workDirHost(p)),
                 containerName(cfg[p]) \notin DOMAIN containers)
    /\ UNCHANGED <<fs, cwd, pathBins, images, osArgs, s, envVars, cfg, eng,
                   userConfig, prev>>

\* what `inspect -f {{.State.Running}} name` can give
RunningOutputs(name) ==
    {[err |-> TRUE, text |-> ""]}
    \cup (IF name \in DOMAIN containers
          THEN {[err |-> FALSE,
                 text |-> IF containers[name].state = "Running"
                          THEN "true" ELSE "false"]}
          ELSE {})

\* Up, lines 89-96: containerRunning, and the return when it is running
UpRunning(p) ==
    /\ pc[p] = "up_running"
    /\ \E out \in RunningOutputs(containerName(cfg[p])) :
         /\ Issue(p, [op |-> "inspect", name |-> containerName(cfg[p]),
                      ok |-> ~out.err, running |-> containerRunning(out),
                      fault |-> out.err /\ containerName(cfg[p])
                                             \in DOMAIN containers])
         /\ IF ~containerRunning(out)
            THEN Goto(p, "up_start") /\ UNCHANGED exit
            ELSE UpReturned(p)
    /\ UNCHANGED <<fs, cwd, pathBins, containers, images, osArgs, s, envVars,
                   cfg, eng, userConfig, prev>>

\* an Up that goes on when `start` failed
EngineStartUnchecked(p, name) ==
    \E ok \in {name \in DOMAIN containers, FALSE} :
      /\ Issue(p, [op |-> "start", name |-> name, ok |-> ok,
                   fault |-> name \in DOMAIN containers /\ ~ok])
      /\ containers' = IF ok
                       THEN [containers EXCEPT ![name].state = "Running"]
                       ELSE containers
      /\ UpReturned(p)

\* Up, lines 93-95: the engine's `start`
EngineStart(p, name) ==
    \E ok \in {name \in DOMAIN containers, FALSE} :
      /\ Issue(p, [op |-> "start", name |-> name, ok |-> ok,
                   fault |-> name \in DOMAIN containers /\ ~ok])
      /\ IF ok
         THEN /\ containers' = [containers EXCEPT ![name].state = "Running"]
              /\ UpReturned(p)
         ELSE Exit(p, 1) /\ UNCHANGED containers

\* an Up that returns without starting a container it found stopped
UpStartSkipped(p) ==
    /\ pc[p] = "up_start"
    /\ UpReturned(p)
    /\ UNCHANGED <<fs, cwd, pathBins, containers, images, osArgs, s, envVars,
                   cfg, eng, userConfig, log, prev>>

\* Up, lines 93-95
UpStart(p) ==
    /\ pc[p] = "up_start"
    /\ EngineStart(p, containerName(cfg[p]))
    /\ UNCHANGED <<fs, cwd, pathBins, images, osArgs, s, envVars, cfg, eng,
                   userConfig, prev>>


\* the container name is there and runs
IsUp(name) == name \in DOMAIN containers /\ containers[name].state = "Running"

EngineExecIn(p, name, up, args) ==
    \E ok \in {up, FALSE} :
      /\ Issue(p, [op |-> "exec", name |-> name, args |-> args,
                   ok |-> ok, fault |-> up /\ ~ok])
      /\ Exit(p, IF ok THEN 0 ELSE 1)

\* the engine's `exec -it` with the command line args
EngineExec(p, here, args) ==
    /\ pc[p] = here
    /\ EngineExecIn(p, containerName(cfg[p]), IsUp(containerName(cfg[p])),
                    args)
    /\ UNCHANGED <<fs, cwd, pathBins, containers, images, osArgs, s, envVars,
                   cfg, eng, userConfig, prev>>

\* main, lines 140-144, and Enter
EnterInspect(p) == InspectFor(p, "enter_inspect", "enter_exec")

EnterExec(p) ==
    EngineExec(p, "enter_exec",
               execArgs(userConfig[p], envVars[p], cfg[p], <<"bash", "-l">>))

\* main, lines 151-153: a leading "--" is dropped from the command
execCommand(cmdArgs) ==
    IF cmdArgs # <<>> /\ Head(cmdArgs) = "--" THEN Tail(cmdArgs) ELSE cmdArgs

\* main, lines 158-161, and Exec
ExecInspect(p) == InspectFor(p, "exec_inspect", "exec_exec")

ExecExec(p) ==
    EngineExec(p, "exec_exec",
               execArgs(userConfig[p], envVars[p], cfg[p],
                        execCommand(osArgs[p].args)))

\* main, lines 117-120: the optional name argument of down
downName(cmdArgs) == IF Len(cmdArgs) > 0 THEN cmdArgs[1] ELSE ""

\* Down, line 141: the engine's `stop`, its failure ignored
EngineStop(p, target) ==
    \E ok \in {target \in DOMAIN containers, FALSE} :
      /\ Issue(p, [op |-> "stop", name |-> target, ok |-> ok,
                   fault |-> target \in DOMAIN containers /\ ~ok])
      /\ containers' = IF ok
                       THEN [containers EXCEPT ![target].state = "Stopped"]
                       ELSE containers
      /\ Goto(p, "down_rm")

DownStop(p) ==
    /\ pc[p] = "down_stop"
    /\ EngineStop(p, downTarget(cfg[p], downName(osArgs[p].args)))
    /\ UNCHANGED <<fs, cwd, pathBins, images, osArgs, s, envVars, cfg, eng,
                   userConfig, exit, prev>>

\* a Down that returns the error of `rm -f`
downResultOfRm(stopErr, rmErr) == rmErr

\* Down's result for the errors of its two commands (lines 141-143)
downResult(stopErr, rmErr) == FALSE

\* Down, lines 142-143: the engine's `rm -f`, its failure ignored, and
\* main, lines 121-124
EngineRm(p, target, stopErr) ==
    \E ok \in BOOLEAN :
      /\ Issue(p, [op |-> "rm", name |-> target, ok |-> ok,
                   fault |-> target \in DOMAIN containers /\ ~ok])
      /\ containers' = IF ok
                       THEN [n \in DOMAIN containers \ {target} |->
                                containers[n]]
                       ELSE containers
      /\ Exit(p, IF downResult(stopErr, ~ok) THEN 1 ELSE 0)

DownRm(p) ==
    /\ pc[p] = "down_rm"
    /\ EngineRm(p, downTarget(cfg[p], downName(osArgs[p].args)),
                ~log[p][Len(log[p])].ok)
    /\ UNCHANGED <<fs, cwd, pathBins, images, osArgs, s, envVars, cfg, eng,
                   userConfig, prev>>

\* a List that runs `ps -a`
MainListAll(p) ==
    /\ pc[p] = "list"
    /\ \E ok \in BOOLEAN :
         /\ Issue(p, [op |-> "ps", name |-> "^airlock-", ok |-> ok,
                      fault |-> ~ok,
                      names |-> IF ok
                                THEN {n \in DOMAIN containers :
                                        HasPrefix(n, "airlock-")}
                                ELSE {}])
         /\ Exit(p, IF ok THEN 0 ELSE 1)
    /\ UNCHANGED <<fs, cwd, pathBins, containers, images, osArgs, s, envVars,
                   cfg, eng, userConfig, prev>>

\* List, lines 146-168, and main, lines 107-114: the engine's `ps`
\* without -a prints the running containers the name filter matches
MainList(p) ==
    /\ pc[p] = "list"
    /\ \E ok \in BOOLEAN :
         /\ Issue(p, [op |-> "ps", name |-> "^airlock-", ok |-> ok,
                      fault |-> ~ok,
                      names |-> IF ok
                                THEN {n \in DOMAIN containers :
                                        /\ HasPrefix(n, "airlock-")
                                        /\ containers[n].state = "Running"}
                                ELSE {}])
         /\ Exit(p, IF ok THEN 0 ELSE 1)
    /\ UNCHANGED <<fs, cwd, pathBins, containers, images, osArgs, s, envVars,
                   cfg, eng, userConfig, prev>>

\* Info, lines 29-50, and main, lines 126-132: no engine command
MainInfo(p) ==
    /\ pc[p] = "info"
    /\ Exit(p, 0)
    /\ UNCHANGED <<fs, cwd, pathBins, containers, images, osArgs, s, envVars,
                   cfg, eng, userConfig, log, prev>>


-----------------------------------------------------------------------------
(* the lifecycle specification: one process, one invocation after another *)

Doc0 ==
    [name |-> None, projectDir |-> None, workdir |-> None, image |-> None,
     build |-> None, engine |-> None, home |-> None, cache |-> None,
     mounts |-> None, env |-> None, ports |-> None]

YamlFile(doc) == [kind |-> "yaml", doc |-> doc]

\* a project that runs a pulled image
DocImage ==
    [Doc0 EXCEPT !.name = Some("proj"), !.image = Some("img:1"),
                 !.env = Some([kind |-> "map", m |-> ("A" :> "1")]),
                 !.ports = Some(<<[host |-> "3000", container |-> "80"]>>)]

\* a project that builds its image, as `airlock init` lays it out
DocBuild ==
    [Doc0 EXCEPT !.name = Some("proj"), !.engine = Some("podman"),
                 !.build = Some([context |-> Some("."),
                                 containerfile |-> Some("./Containerfile"),
                                 tag |-> Some("airlock:proj")]),
                 !.mounts = Some(<<[Source |-> ".", Target |-> "/workspace",
                                    Mode |-> "rw"]>>),
                 !.env = Some([kind |-> "seq", s |-> <<"B=2">>])]

\* the same project before its configuration was last edited
DocOld ==
    [Doc0 EXCEPT !.name = Some("proj"), !.image = Some("img:0"),
                 !.env = Some([kind |-> "map", m |-> ("OLD" :> "1")])]

ProjectFs(doc) ==
    ("/w/proj/airlock.yaml" :> YamlFile(doc))
    @@ ("/w/proj/Containerfile" :> [kind |-> "data"])

\* the project directory after `airlock init` made the state directories
InitializedFs(doc) ==
    ProjectFs(doc)
    @@ ("/w/proj/.airlock/home" :> [kind |-> "dir"])
    @@ ("/w/proj/.airlock/cache" :> [kind |-> "dir"])

PulledConfig ==
    [User |-> "root", WorkingDir |-> "/workspace",
     Env |-> <<"PATH=/bin", "HOME=/nowhere">>]

\* the `run` command line an earlier Up created the container with
OldRun ==
    createContainer("docker", Load(ProjectFs(DocOld), "/w/proj",
                                   "airlock.yaml").cfg,
                    inspectImage([status |-> "data",
                                  config |-> PulledConfig]).u,
                    "/w/proj", "/w/proj/.airlock/home",
                    "/w/proj/.airlock/cache", "/w/proj")

OldContainer(state) == [state |-> state, run |-> OldRun]

\* Absent, Stopped or Running
InitialContainers ==
    {EmptyMap,
     "airlock-proj" :> OldContainer("Stopped"),
     "airlock-proj" :> OldContainer("Running")}

EnvNames == {<<>>, <<"TOKEN", "KEY">>}

CommandLine(e, cmd, args) ==
    [config |-> "", e |-> e, cmd |-> cmd, args |-> args]

CommandLines ==
    {CommandLine(<<>>, c, <<>>) : c \in {"up", "list", "info", "help"}}
    \cup {CommandLine(e, "enter", <<>>) : e \in EnvNames}
    \cup {CommandLine(e, "exec", <<"--", "ls">>) : e \in EnvNames}
    \cup {CommandLine(<<>>, "exec", <<>>)}
    \cup {CommandLine(<<>>, "down", a) :
            a \in {<<>>, <<"proj">>, <<"airlock-gone">>}}

InitProcs ==
    /\ pc = [p \in Procs |-> "idle"]
    /\ osArgs = [p \in Procs |-> CommandLine(<<>>, "", <<>>)]
    /\ s = [p \in Procs |-> <<>>]
    /\ envVars = [p \in Procs |-> <<>>]
    /\ cfg = [p \in Procs |-> ZeroConfig]
    /\ eng = [p \in Procs |-> ""]
    /\ userConfig = [p \in Procs |-> NilUserConfig]
    /\ log = [p \in Procs |-> <<>>]
    /\ exit = [p \in Procs |-> 0]
    /\ prev = [p \in Procs |-> NoSummary]

Init ==
    /\ \/ /\ fs = ProjectFs(DocImage)
          /\ images \in {EmptyMap, "img:1" :> PulledConfig}
       \/ /\ fs = InitializedFs(DocBuild)
          /\ images = EmptyMap
    /\ cwd = "/w/proj"
    /\ pathBins \in {{"podman", "docker"}, {}}
    /\ containers \in InitialContainers
    /\ InitProcs

SeqProcs == {1}

Step(p) ==
    \/ MainParse(p)
    \/ MainLoadConfig(p)
    \/ MainDetectEngine(p)
    \/ UpBuild(p)
    \/ UpInspect(p)
    \/ UpMkdir(p)
    \/ UpExists(p)
    \/ UpCreate(p)
    \/ UpRunning(p)
    \/ UpStart(p)
    \/ EnterInspect(p)
    \/ EnterExec(p)
    \/ ExecInspect(p)
    \/ ExecExec(p)
    \/ DownStop(p)
    \/ DownRm(p)
    \/ MainList(p)
    \/ MainInfo(p)

Next ==
    \E p \in SeqProcs :
        \/ \E line \in CommandLines : Invoke(p, line)
        \/ Step(p)

Spec == Init /\ [][Next]_vars


-----------------------------------------------------------------------------
(* properties of the lifecycle *)

\* the positions in the log L of the engine command op
Ops(L, op) == {i \in 1..Len(L) : L[i].op = op}

Count(L, op) == Cardinality(Ops(L, op))

\* no engine command of L failed that the engine's state allowed
NoFault(L) == \A i \in 1..Len(L) : ~L[i].fault

\* Up returned nil before position k of L: it saw the container running, or
\* its `start` succeeded
UpSucceededBefore(L, k) ==
    \E i \in 1..(k - 1) : \/ L[i].op = "inspect" /\ L[i].running
                          \/ L[i].op = "start" /\ L[i].ok

UpSucceeded(L) == UpSucceededBefore(L, Len(L) + 1)

\* what Up observed through the engine's queries
ObservedAbsent(L) == \E i \in Ops(L, "container inspect") : ~L[i].ok

ObservedExists(L) == \E i \in Ops(L, "container inspect") : L[i].ok

ObservedStopped(L) ==
    ObservedExists(L) /\ \E i \in Ops(L, "inspect") : ~L[i].running

ObservedRunning(L) ==
    ObservedExists(L) /\ \E i \in Ops(L, "inspect") : L[i].running

\* the invocation of p is an `up` that returned 0 and met no engine fault
CleanUp(p) ==
    /\ pc[p] = "done"
    /\ osArgs[p].cmd = "up"
    /\ exit[p] = 0
    /\ NoFault(log[p])

\* the invocation before it was one too
AfterCleanUp(p) == prev[p].cmd = "up" /\ prev[p].exit = 0 /\ ~prev[p].fault

\* C1: when Up runs twice in succession and every engine command succeeds,
\* the container is Running after each run, and the second run issues no
\* `run` command, whatever the container's state was before the first.
C1_UpIdempotent ==
    \A p \in SeqProcs :
        CleanUp(p) =>
            /\ IsUp(containerName(cfg[p]))
            /\ AfterCleanUp(p) => Count(log[p], "run") = 0

\* the second of two Ups is done, and the first had to create the container
C1_Witness ==
    /\ CleanUp(1)
    /\ AfterCleanUp(1)
    /\ prev[1].ran
    /\ Count(log[1], "container inspect") = 1

\* C2, what Up issues for what it observed: Absent gives exactly one
\* `run -d` and, the engine answering truly, no `start`; Stopped gives no
\* `run` and one `start`; Running gives neither.
C2_Choice(L) ==
    /\ Count(L, "run") <= 1
    /\ Count(L, "start") <= 1
    /\ \A i \in Ops(L, "run") : ObservedAbsent(L) /\ L[i].args.d
    /\ ObservedAbsent(L) /\ UpSucceeded(L) =>
          /\ Count(L, "run") = 1
          /\ NoFault(L) => Count(L, "start") = 0
    /\ ObservedStopped(L) =>
          /\ Count(L, "run") = 0
          /\ UpSucceeded(L) => Count(L, "start") = 1
    /\ ObservedRunning(L) => Count(L, "run") = 0 /\ Count(L, "start") = 0

\* C2, the configuration is not applied again: a container that a step
\* leaves in place keeps the `run` command line it was created with
C2_Baked ==
    \A n \in DOMAIN containers \cap DOMAIN containers' :
        containers'[n].run = containers[n].run

C3_ExecCallsUpFirst ==
    \A p \in SeqProcs :
        /\ osArgs[p].cmd = "exec" =>
              \A k \in Ops(log[p], "exec") : UpSucceededBefore(log[p], k)
        /\ osArgs[p].cmd = "enter" =>
              /\ Count(log[p], "container inspect") = 0
              /\ Count(log[p], "inspect") = 0
              /\ Count(log[p], "run") = 0
              /\ Count(log[p], "start") = 0

\* `airlock exec -- ls` created the container and then ran the command in it
C3_Witness ==
    /\ pc[1] = "done"
    /\ osArgs[1].cmd = "exec"
    /\ exit[1] = 0
    /\ Count(log[1], "run") = 1
    /\ Count(log[1], "exec") = 1

\* C3 as stated: along every command path, `enter` included, the engine
\* `exec` is issued only after Up has returned successfully in the same
\* invocation.
C3_EnterAndExecCallUpFirst ==
    \A p \in SeqProcs :
        \A k \in Ops(log[p], "exec") : UpSucceededBefore(log[p], k)

\* C4: Down returns success for every outcome of `stop` and `rm -f`, with
\* or without a target name: the `down` command, once it has a
\* configuration and an engine, issues both commands and exits 0.
C4_DownSucceeds ==
    \A p \in SeqProcs :
        pc[p] = "done" /\ osArgs[p].cmd = "down"
        /\ Count(log[p], "stop") > 0 =>
            /\ exit[p] = 0
            /\ Count(log[p], "stop") = 1
            /\ Count(log[p], "rm") = 1

\* `airlock down` without a target, the container absent: `stop` and `rm -f`
\* both failed
C4_Witness ==
    /\ pc[1] = "done"
    /\ osArgs[1].cmd = "down"
    /\ osArgs[1].args = <<>>
    /\ containers = EmptyMap
    /\ \E i \in Ops(log[1], "stop") : ~log[1][i].ok
    /\ \E i \in Ops(log[1], "rm") : ~log[1][i].ok
    /\ exit[1] = 0

\* C5 as stated: every name given with -e on the command line is passed as
\* `-e <NAME>` to the engine `exec` of Enter and of Exec, in the order given.
C5_EnvForwarded ==
    \A p \in SeqProcs :
        \A k \in Ops(log[p], "exec") :
            /\ Len(log[p][k].args) >= 4 + 2 * Len(osArgs[p].e)
            /\ SubSeq(log[p][k].args, 5, 4 + 2 * Len(osArgs[p].e))
                  = forwardEnv(osArgs[p].e)

\* process p holds the UserConfig of a successful inspectImage
Resolved(p) == userConfig[p] # NilUserConfig

\* the identity for the user an image declares
IdentityOf(u, declared) ==
    /\ u.Name = IF declared = "" THEN "1000" ELSE declared
    /\ u.Home = IF declared = "root" THEN "/root"
                ELSE IF declared = "" THEN "/home/1000"
                ELSE "/home/" \o declared
    /\ u.Home # ""

UserOfExec(args) == args[4]

\* C28: the --user Enter and Exec pass to the engine's `exec` is the --user
\* the container was created with, also when the image was rebuilt or the
\* configured image changed after the container was created.
C28_ExecUserIsCreationUser ==
    \A p \in SeqProcs :
        \A k \in Ops(log[p], "exec") :
            log[p][k].ok =>
                UserOfExec(log[p][k].args)
                    = containers[log[p][k].name].run.user

\* the positions in L of the image build and the image inspections
ImageSteps(L) == Ops(L, "build") \cup Ops(L, "image inspect")

\* C24: when the image build or the image inspection fails or gives no
\* usable record, Up returns the error and the invocation issues no engine
\* command after it: no container query, no run, no start, no clean-up.
C24_ImageFailureIsFinal ==
    \A p \in SeqProcs :
        \A i \in ImageSteps(log[p]) :
            ~log[p][i].ok =>
                /\ i = Len(log[p])
                /\ pc[p] = "done"
                /\ exit[p] # 0

\* an `up` that built the image, failed to inspect it, and returned
C24_Witness ==
    /\ pc[1] = "done"
    /\ osArgs[1].cmd = "up"
    /\ exit[1] = 1
    /\ Len(log[1]) = 2
    /\ log[1][1].op = "build" /\ log[1][1].ok
    /\ log[1][2].op = "image inspect" /\ ~log[1][2].ok

\* the positions in L of Up's two queries
Queries(L) == Ops(L, "container inspect") \cup Ops(L, "inspect")

\* C13 as stated: when the existence query or the running-state query
\* fails although the container is there, Up returns an error and issues
\* neither `run` nor `start` after it.
C13_QueryErrorsSurface ==
    \A p \in SeqProcs :
        \A i \in Queries(log[p]) :
            log[p][i].fault =>
                /\ \A j \in (i + 1)..Len(log[p]) :
                      log[p][j].op \notin {"run", "start"}
                /\ pc[p] = "done" => exit[p] # 0

\* process p has finished a `list` whose `ps` succeeded
Listed(p) ==
    /\ pc[p] = "done"
    /\ osArgs[p].cmd = "list"
    /\ \E i \in Ops(log[p], "ps") : log[p][i].ok

StateChanging == {"run", "start", "stop", "rm"}

\* the container `down` is to act on for the arguments args, in a project
\* named name
ExpectedTarget(args, name) ==
    IF args = <<>> THEN "airlock-" \o name
    ELSE IF HasPrefix(args[1], "airlock-") THEN args[1]
    ELSE "airlock-" \o args[1]

\* C15: every container name passed to `run`, `start`, `stop` or `rm -f`
\* begins with airlock-; Down with a target that lacks the prefix acts on
\* airlock-<target>, and Down with no target on the project's
\* airlock-<name>.
C15_PrefixedNames ==
    \A p \in SeqProcs :
        \A i \in 1..Len(log[p]) :
            /\ log[p][i].op \in StateChanging =>
                  HasPrefix(log[p][i].name, "airlock-")
            /\ log[p][i].op = "run" => log[p][i].args.name = log[p][i].name
            /\ log[p][i].op \in {"stop", "rm"} =>
                  log[p][i].name = ExpectedTarget(osArgs[p].args, cfg[p].Name)

\* `airlock down proj` stopped and removed airlock-proj
C15_Witness ==
    /\ pc[1] = "done"
    /\ osArgs[1].cmd = "down"
    /\ osArgs[1].args = <<"proj">>
    /\ \E i \in Ops(log[1], "stop") :
          log[1][i].name = "airlock-proj" /\ log[1][i].ok
    /\ \E i \in Ops(log[1], "rm") :
          log[1][i].name = "airlock-proj" /\ log[1][i].ok

-----------------------------------------------------------------------------
(* Load on layered configurations: a base file, a local override beside   *)
(* it, and a Containerfile or none in the project root                    *)

\* the maps that give some of the keys K a value of V
PartialMaps(K, V) == UNION {[D -> V] : D \in SUBSET K}

MapNode(m) == [kind |-> "map", m |-> m]

BuildNode == [context |-> None, containerfile |-> None, tag |-> None]

BaseEnvs ==
    {None, Some([kind |-> "seq", s |-> <<"A=1", "B=2">>])}
    \cup {Some(MapNode(m)) : m \in PartialMaps({"A", "B"}, {"1", "2"})}

LocalEnvs ==
    {None} \cup {Some(MapNode(m)) : m \in PartialMaps({"B", "C"}, {"3", "4"})}

BaseDocs ==
    {[Doc0 EXCEPT !.name = n, !.image = i, !.build = b, !.env = e] :
        n \in {None, Some("proj")},
        i \in {None, Some(""), Some("img:1")},
        b \in {None, Some(BuildNode)},
        e \in BaseEnvs}

LocalDocs ==
    {[Doc0 EXCEPT !.image = i, !.engine = g, !.build = b, !.env = e] :
        i \in {None, Some(""), Some("img:2")},
        g \in {None, Some("docker")},
        b \in {None, Some([BuildNode EXCEPT !.tag = Some("t:2")])},
        e \in LocalEnvs}

\* the local override: no file, a file that cannot be read, a file that is
\* no YAML, or a document
LocalFiles ==
    {[kind |-> "none"], [kind |-> "unreadable"], [kind |-> "malformed"]}
    \cup {YamlFile(d) : d \in LocalDocs}

BasePath == "/w/proj/airlock.yaml"
LocalPath == "/w/proj/.airlock/airlock.local.yaml"
ContainerfilePath == "/w/proj/Containerfile"

LayeredFs(base, local, containerfile) ==
    (BasePath :> YamlFile(base))
    @@ (IF local.kind = "none" THEN EmptyMap ELSE LocalPath :> local)
    @@ (IF containerfile THEN ContainerfilePath :> [kind |-> "data"]
        ELSE EmptyMap)

\* process 1 is at label with the command line line, the others idle
ProcsAt(label, line) ==
    /\ pc = [p \in Procs |-> IF p = 1 THEN label ELSE "idle"]
    /\ osArgs = [p \in Procs |->
                    IF p = 1 THEN line ELSE CommandLine(<<>>, "", <<>>)]
    /\ s = [p \in Procs |-> <<>>]
    /\ envVars = [p \in Procs |-> <<>>]
    /\ exit = [p \in Procs |-> 0]
    /\ prev = [p \in Procs |-> NoSummary]

InitLoad ==
    /\ \E base \in BaseDocs, local \in LocalFiles, cf \in BOOLEAN :
          fs = LayeredFs(base, local, cf)
    /\ cwd = "/w/proj"
    /\ pathBins = {"podman", "docker"}
    /\ containers = EmptyMap
    /\ images = EmptyMap
    /\ ProcsAt("load", CommandLine(<<>>, "up", <<>>))
    /\ cfg = [p \in Procs |-> ZeroConfig]
    /\ eng = [p \in Procs |-> ""]
    /\ userConfig = [p \in Procs |-> NilUserConfig]
    /\ log = [p \in Procs |-> <<>>]

NextLoad == MainLoadConfig(1)

SpecLoad == InitLoad /\ [][NextLoad]_vars

\* the two layers as the file system holds them; an override that is absent
\* or cannot be read counts as an empty document
BaseLayer == fs[BasePath].doc

LocalLayer ==
    IF LocalPath \in DOMAIN fs /\ fs[LocalPath].kind = "yaml"
    THEN fs[LocalPath].doc ELSE Doc0

\* a scalar key after merging: the override's value when the override has
\* the key, else the base's, else nothing
MergedScalar(base, local) ==
    IF local # None THEN local[1] ELSE IF base # None THEN base[1] ELSE ""

LayerEnv(doc) == IF doc.env = None THEN EmptyMap ELSE doc.env[1].m

\* both layers give env as a mapping, or not at all
MapEnvs ==
    /\ BaseLayer.env # None => BaseLayer.env[1].kind = "map"
    /\ LocalLayer.env # None => LocalLayer.env[1].kind = "map"

\* Load returned a configuration to process 1 / returned an error
LoadReturned == pc[1] = "detect"
LoadFailed == pc[1] = "done" /\ exit[1] = 1

BothSetAfterMerge ==
    /\ MergedScalar(BaseLayer.image, LocalLayer.image) # ""
    /\ BaseLayer.build # None \/ LocalLayer.build # None

\* C8: every configuration Load returns has at most one of image and build
\* set, and when both are set after merging the layers Load returns an
\* error instead of a configuration.
C8_ImageXorBuild ==
    /\ LoadReturned => ~(cfg[1].Image # "" /\ cfg[1].Build # None)
    /\ pc[1] # "load" /\ BothSetAfterMerge => LoadFailed

\* Load refused an image in the base file with a build in the local override
C8_Witness ==
    /\ LoadFailed
    /\ BaseLayer.image = Some("img:1")
    /\ BaseLayer.build = None
    /\ LocalLayer.image = None
    /\ LocalLayer.build # None

\* C9: the configuration Load returns takes each scalar field from the
\* override when the override sets it and from the base otherwise, and its
\* env map is the key-wise union of both layers with the override's value
\* on every shared key.
C9_Merge ==
    LoadReturned =>
        /\ cfg[1].Image = MergedScalar(BaseLayer.image, LocalLayer.image)
        /\ cfg[1].Engine = MergedScalar(BaseLayer.engine, LocalLayer.engine)
        /\ MergedScalar(BaseLayer.name, LocalLayer.name) # "" =>
              cfg[1].Name = MergedScalar(BaseLayer.name, LocalLayer.name)
        /\ MapEnvs =>
              cfg[1].Env = Some(LayerEnv(LocalLayer) @@ LayerEnv(BaseLayer))

\* base {A:1,B:2} with override {B:3,C:4} gave {A:1,B:3,C:4}, and the
\* override's image replaced the base's
C9_Witness ==
    /\ LoadReturned
    /\ BaseLayer.env = Some(MapNode(("A" :> "1") @@ ("B" :> "2")))
    /\ LocalLayer.env = Some(MapNode(("B" :> "3") @@ ("C" :> "4")))
    /\ cfg[1].Env = Some(("A" :> "1") @@ ("B" :> "3") @@ ("C" :> "4"))
    /\ BaseLayer.image = Some("img:1")
    /\ cfg[1].Image = "img:2"

\* the keys the override document sets are the values of the configuration
OverrideApplied ==
    /\ fs[LocalPath].kind = "yaml"
    /\ LocalLayer.image # None => cfg[1].Image = LocalLayer.image[1]
    /\ LocalLayer.engine # None => cfg[1].Engine = LocalLayer.engine[1]
    /\ LocalLayer.build # None => cfg[1].Build # None
    /\ LocalLayer.env # None =>
          \A k \in DOMAIN LayerEnv(LocalLayer) :
              /\ k \in DOMAIN cfg[1].Env[1]
              /\ cfg[1].Env[1][k] = LayerEnv(LocalLayer)[k]

\* C18: whenever the local override file exists, Load either applies it or
\* fails with an error; an existing override is never silently ignored.
C18_OverrideAppliedOrError ==
    pc[1] # "load" /\ LocalPath \in DOMAIN fs =>
        LoadFailed \/ OverrideApplied

\* the image the earlier revision of Load fell back to
DefaultImage == "ghcr.io/donjaime/airlock-base:latest"

\* C10 as stated: when the merged configuration sets neither image nor
\* build and the project root holds no Containerfile, the configuration
\* Load returns has image equal to the fixed default image.
C10_DefaultImage ==
    LoadReturned
    /\ MergedScalar(BaseLayer.image, LocalLayer.image) = ""
    /\ BaseLayer.build = None /\ LocalLayer.build = None
    /\ ContainerfilePath \notin DOMAIN fs
    => cfg[1].Image = DefaultImage

-----------------------------------------------------------------------------
(* createContainer on the configurations Load returns and the users        *)
(* inspectImage returns: Up has found the container absent                *)

MaxMounts == 2
MaxImageEnv == 1

\* the sequences over S of length at most n
SeqsUpTo(S, n) == UNION {[1..k -> S] : k \in 0..n}

\* explicit mounts: of the project directory on the image's workdir, of
\* another host directory on the same target, of a host directory
\* read-only, and of a directory on the masked path
CreateMounts ==
    {[Source |-> ".", Target |-> "/workspace", Mode |-> ""],
     [Source |-> "/other", Target |-> "/workspace", Mode |-> "ro"],
     [Source |-> "/data", Target |-> "/opt", Mode |-> "ro"],
     [Source |-> "./x", Target |-> "/workspace/.airlock", Mode |-> "rw"]}

CreateEnvs == PartialMaps({"HOME", "XDG_CONFIG_HOME", "A"}, {"/cfg"})

CreateDocs ==
    {[Doc0 EXCEPT !.name = Some("proj"), !.image = Some("img:1"),
                  !.mounts = Some(m), !.env = Some(MapNode(e))] :
        m \in SeqsUpTo(CreateMounts, MaxMounts), e \in CreateEnvs}

ImageEnvs ==
    SeqsUpTo({"HOME=/img", "XDG_CACHE_HOME=/img/c", "XDG_DATA_HOME=/img/d",
              "A=/img", "A=/img2", "B=/img", "NOVALUE"}, MaxImageEnv)

CreateImages ==
    {[User |-> u, WorkingDir |-> w, Env |-> e] :
        u \in {"", "root", "dev"}, w \in {"/workspace", ""}, e \in ImageEnvs}

\* the commands Up has issued when it reaches createContainer
LogBeforeCreate(c) ==
    <<[op |-> "image inspect", name |-> imageOf(c), ok |-> TRUE,
       fault |-> FALSE],
      [op |-> "container inspect", name |-> containerName(c), ok |-> FALSE,
       fault |-> FALSE]>>

InitCreateWith(doc, img, c, u) ==
    /\ fs = InitializedFs(doc)
    /\ images = (imageOf(c) :> img)
    /\ cfg = [p \in Procs |-> IF p = 1 THEN c ELSE ZeroConfig]
    /\ userConfig = [p \in Procs |-> IF p = 1 THEN u ELSE NilUserConfig]
    /\ log = [p \in Procs |-> IF p = 1 THEN LogBeforeCreate(c) ELSE <<>>]

InitCreate ==
    /\ \E doc \in CreateDocs, img \in CreateImages :
          InitCreateWith(doc, img,
                         Load(ProjectFs(doc), "/w/proj", "airlock.yaml").cfg,
                         inspectImage([status |-> "data",
                                       config |-> img]).u)
    /\ cwd = "/w/proj"
    /\ pathBins = {"podman", "docker"}
    /\ containers = EmptyMap
    /\ eng \in {[p \in Procs |-> IF p = 1 THEN e ELSE ""] :
                   e \in {"podman", "docker"}}
    /\ ProcsAt("up_create", CommandLine(<<>>, "up", <<>>))

NextCreate == UpCreate(1)

SpecCreate == InitCreate /\ [][NextCreate]_vars

\* the -v arguments / the -e arguments of the `run` at position k of L
MountsOfRun(L, k) == L[k].args.v
EnvOfRun(L, k) == L[k].args.e

\* C6: in the `run` command synthesized by createContainer, the masking
\* mount <workdir>/.airlock is the last -v argument, for any number and any
\* targets of explicit mounts and whether or not the default workdir mount
\* is suppressed.
C6_MaskLast ==
    \A k \in Ops(log[1], "run") :
        /\ Len(MountsOfRun(log[1], k)) >= 3 + Len(cfg[1].Mounts)
        /\ MountsOfRun(log[1], k)[Len(MountsOfRun(log[1], k))]
              = userConfig[1].WorkDir \o "/.airlock"

\* `run` with two explicit mounts, one of them on the workdir, so that the
\* default workdir mount is suppressed, the other on the masked path
C6_Witness ==
    /\ Count(log[1], "run") = 1
    /\ Len(cfg[1].Mounts) = 2
    /\ cfg[1].Mounts[1].Target = userConfig[1].WorkDir
    /\ cfg[1].Mounts[2].Target = userConfig[1].WorkDir \o "/.airlock"
    /\ \A k \in Ops(log[1], "run") : Len(MountsOfRun(log[1], k)) = 5

\* the -e arguments of the bag e that set the variable key
ArgsFor(e, key) == {a \in DOMAIN e : HasPrefix(a, key \o "=")}

\* the bag e sets key in exactly one -e argument, to value
SetOnce(e, key, value) ==
    /\ ArgsFor(e, key) = {key \o "=" \o value}
    /\ e[key \o "=" \o value] = 1

\* C7: in the environment composed for `run`, HOME, XDG_CACHE_HOME,
\* XDG_CONFIG_HOME and XDG_DATA_HOME are present and equal to <home>,
\* <home>/.cache, <home>/.config and <home>/.local/share, whatever the image
\* or the configuration give for those keys, each in exactly one -e
\* argument.
C7_IdentityEnv ==
    \A k \in Ops(log[1], "run") :
        /\ SetOnce(EnvOfRun(log[1], k), "HOME", userConfig[1].Home)
        /\ SetOnce(EnvOfRun(log[1], k), "XDG_CACHE_HOME",
                   userConfig[1].Home \o "/.cache")
        /\ SetOnce(EnvOfRun(log[1], k), "XDG_CONFIG_HOME",
                   userConfig[1].Home \o "/.config")
        /\ SetOnce(EnvOfRun(log[1], k), "XDG_DATA_HOME",
                   userConfig[1].Home \o "/.local/share")

\* `run` for an image that sets HOME and a configuration that sets HOME and
\* XDG_CONFIG_HOME
C7_Witness ==
    /\ Count(log[1], "run") = 1
    /\ userConfig[1].Env = <<"HOME=/img">>
    /\ cfg[1].Env = Some(("HOME" :> "/cfg") @@ ("XDG_CONFIG_HOME" :> "/cfg"))
    /\ userConfig[1].Home = "/home/dev"

\* the entries of the image's Env that declare key, and the value of the
\* last of them
Declaring(env, key) ==
    {i \in DOMAIN env : HasPrefix(env[i], key \o "=")}

ValueAt(entry, key) == SubSeq(entry, Len(key) + 2, Len(entry))

ImageValue(env, key, at) == ValueAt(env[MaxOf(at)], key)

\* the variables of the inputs that createContainer does not force
FreeKeys == {"A", "B"}

ComposedFor(e, c, env, key) ==
    IF key \in DOMAIN c.Env[1] THEN SetOnce(e, key, c.Env[1][key])
    ELSE IF Declaring(env, key) # {}
    THEN SetOnce(e, key, ImageValue(env, key, Declaring(env, key)))
    ELSE ArgsFor(e, key) = {}

\* C20: in the environment composed for `run`, every key other than HOME,
\* XDG_CACHE_HOME, XDG_CONFIG_HOME, XDG_DATA_HOME and WORKDIR has the
\* configuration's value when the configuration defines it and the image's
\* value otherwise, and no key is given in more than one -e argument.
C20_ConfigOverImage ==
    \A k \in Ops(log[1], "run") :
        /\ \A key \in FreeKeys :
              ComposedFor(EnvOfRun(log[1], k), cfg[1],
                          images[imageOf(cfg[1])].Env, key)
        /\ \A a \in DOMAIN EnvOfRun(log[1], k) : EnvOfRun(log[1], k)[a] = 1

\* `run` for an image declaring A=/img under a configuration with A: /cfg
C20_Witness ==
    /\ Count(log[1], "run") = 1
    /\ images[imageOf(cfg[1])].Env = <<"A=/img">>
    /\ "A" \in DOMAIN cfg[1].Env[1]
    /\ \A k \in Ops(log[1], "run") :
          SetOnce(EnvOfRun(log[1], k), "A", "/cfg")

\* the part of str after its first colon, "" when it has none
AfterColon(str) ==
    IF IndexByte(str, ":") = 0 THEN ""
    ELSE SubSeq(str, IndexByte(str, ":") + 1, Len(str))

\* the part of str before its first colon
BeforeColon(str) ==
    IF IndexByte(str, ":") = 0 THEN str
    ELSE SubSeq(str, 1, IndexByte(str, ":") - 1)

\* a -v argument host:target:options mounts on target
MountsOn(arg, target) ==
    /\ IndexByte(arg, ":") > 0
    /\ IndexByte(AfterColon(arg), ":") > 0
    /\ BeforeColon(AfterColon(arg)) = target

\* the positions of the -v arguments v that mount on target
ArgsOn(v, target) == {i \in 1..Len(v) : MountsOn(v[i], target)}

\* the explicit mounts of the configuration c on target
ExplicitOn(c, target) == {i \in 1..Len(c.Mounts) : c.Mounts[i].Target = target}

\* the default workdir mount of process 1
DefaultWorkdirArg ==
    workDirHost(1) \o ":" \o userConfig[1].WorkDir \o ":Z"

\* C12 as amended: when an explicit mount targets the workdir the default
\* workdir mount is omitted, and the -v arguments on that target are the
\* explicit ones, one for each explicit mount on it; when none does, the
\* default workdir mount is the one -v argument on that target.
C12_WorkdirMount ==
    \A k \in Ops(log[1], "run") :
        /\ Cardinality(ArgsOn(MountsOfRun(log[1], k), userConfig[1].WorkDir))
              = IF ExplicitOn(cfg[1], userConfig[1].WorkDir) = {} THEN 1
                ELSE Cardinality(ExplicitOn(cfg[1], userConfig[1].WorkDir))
        /\ (\E i \in 1..Len(MountsOfRun(log[1], k)) :
                MountsOfRun(log[1], k)[i] = DefaultWorkdirArg)
              <=> ExplicitOn(cfg[1], userConfig[1].WorkDir) = {}

\* `run` for two mounts, one on the workdir and one elsewhere: one -v
\* argument on the workdir, the explicit one
C12_Witness ==
    /\ Count(log[1], "run") = 1
    /\ Len(cfg[1].Mounts) = 2
    /\ cfg[1].Mounts[1].Target = userConfig[1].WorkDir
    /\ cfg[1].Mounts[2].Target = "/opt"
    /\ \A k \in Ops(log[1], "run") :
          Cardinality(ArgsOn(MountsOfRun(log[1], k), "/workspace")) = 1

\* C12 as stated: when at least one explicit mount targets the workdir the
\* default workdir mount is omitted and no two -v arguments are on that
\* target; when none does, exactly one default workdir mount is emitted.
C12_NoDuplicateTarget ==
    \A k \in Ops(log[1], "run") :
        Cardinality(ArgsOn(MountsOfRun(log[1], k), userConfig[1].WorkDir)) = 1

-----------------------------------------------------------------------------
(* main up to the engine: the configuration file reached by several       *)
(* paths from several working directories, and the binaries on PATH       *)

MountWork == [Source |-> ".", Target |-> "/workspace", Mode |-> ""]
MountData == [Source |-> "/data", Target |-> "/opt", Mode |-> "ro"]
MountLocal == [Source |-> "/scratch", Target |-> "/tmp/s", Mode |-> "rw"]

ResolveBaseDocs ==
    {[Doc0 EXCEPT !.name = n, !.image = i, !.engine = g, !.mounts = m] :
        n \in {None, Some("app")},
        i \in {None, Some("img:1")},
        g \in {None, Some("podman"), Some("docker"), Some("nerdctl")},
        m \in {None, Some(<<MountWork>>), Some(<<MountWork, MountData>>)}}

ResolveLocalFiles ==
    {[kind |-> "none"]}
    \cup {YamlFile([Doc0 EXCEPT !.mounts = m]) :
            m \in {None, Some(<<>>), Some(<<MountLocal>>),
                   Some(<<MountLocal, MountWork>>)}}

\* a working directory and the value of -config that reaches
\* /w/proj/airlock.yaml from it
ResolvePaths ==
    {[cwd |-> "/w/proj", config |-> ""],
     [cwd |-> "/w/proj", config |-> "./airlock.yaml"],
     [cwd |-> "/w", config |-> "proj/airlock.yaml"],
     [cwd |-> "/w", config |-> "/w/proj/airlock.yaml"]}

\* the Containerfiles on the host: in the project root, in the directory
\* above it
ResolveContainerfiles == SUBSET {ContainerfilePath, "/w/Containerfile"}

ResolveFs(base, local, containerfiles) ==
    (BasePath :> YamlFile(base))
    @@ (IF local.kind = "none" THEN EmptyMap ELSE LocalPath :> local)
    @@ [f \in containerfiles |-> [kind |-> "data"]]

InitResolveAt(at) ==
    /\ cwd = at.cwd
    /\ ProcsAt("load", [CommandLine(<<>>, "up", <<>>)
                           EXCEPT !.config = at.config])

InitResolve ==
    /\ \E base \in ResolveBaseDocs, local \in ResolveLocalFiles,
          cfs \in ResolveContainerfiles :
          fs = ResolveFs(base, local, cfs)
    /\ \E at \in ResolvePaths : InitResolveAt(at)
    /\ pathBins \in SUBSET {"podman", "docker"}
    /\ containers = EmptyMap
    /\ images = EmptyMap
    /\ cfg = [p \in Procs |-> ZeroConfig]
    /\ eng = [p \in Procs |-> ""]
    /\ userConfig = [p \in Procs |-> NilUserConfig]
    /\ log = [p \in Procs |-> <<>>]

NextResolve == MainLoadConfig(1) \/ MainDetectEngine(1)

SpecResolve == InitResolve /\ [][NextResolve]_vars

\* Load has returned a configuration to process 1, which still holds it
ConfigLoaded == pc[1] \in {"detect", "up_build"} \/ (pc[1] = "done" /\ cfg[1] # ZeroConfig)

\* neither layer sets image or build
NoImageSource ==
    /\ MergedScalar(BaseLayer.image, LocalLayer.image) = ""
    /\ BaseLayer.build = None /\ LocalLayer.build = None

\* C11 as stated: when the merged configuration sets neither image nor
\* build, Load synthesizes a build exactly when a default Containerfile
\* exists in the project root, the directory of the configuration file,
\* whatever the working directory of the process is.
C11_ContainerfileAtProjectRoot ==
    ConfigLoaded /\ NoImageSource =>
        (cfg[1].Build # None <=> ContainerfilePath \in DOMAIN fs)

\* DetectEngine has returned to process 1: an engine, or an error
EngineDetected == pc[1] = "up_build"
DetectionFailed == pc[1] = "done" /\ exit[1] = 1 /\ cfg[1] # ZeroConfig

KnownEngines == {"podman", "docker"}

\* C16 as amended: with a preference configured, detection fails exactly
\* when the preferred engine is not a known engine found on PATH, even if
\* the other engine is available; with none configured, it fails exactly
\* when neither podman nor docker is on PATH, and podman is taken first.
C16_Detection ==
    /\ EngineDetected \/ DetectionFailed =>
          (DetectionFailed <=>
              IF cfg[1].Engine # ""
              THEN cfg[1].Engine \notin KnownEngines \cap pathBins
              ELSE KnownEngines \cap pathBins = {})
    /\ EngineDetected =>
          eng[1] = IF cfg[1].Engine # "" THEN cfg[1].Engine
                   ELSE IF "podman" \in pathBins THEN "podman" ELSE "docker"

\* detection failed for the preference docker with podman on PATH
C16_Witness ==
    /\ DetectionFailed
    /\ cfg[1].Engine = "docker"
    /\ pathBins = {"podman"}

\* C16 as stated: detection fails only when no known engine binary is on
\* PATH; whenever one is available DetectEngine returns an engine, whatever
\* the configured preference.
C16_FailsOnlyWithoutEngine ==
    DetectionFailed => KnownEngines \cap pathBins = {}

\* no layer of the configuration sets name
NoLayerNamesIt == BaseLayer.name = None /\ LocalLayer.name = None

\* C17: when no layer sets name, Load sets it to the base name of the
\* directory that contains the configuration file, for every path the file
\* can be given by, and the container is named airlock-<directory name>.
C17_NameIsDirectoryName ==
    ConfigLoaded /\ NoLayerNamesIt =>
        /\ cfg[1].Name = "proj"
        /\ containerName(cfg[1]) = "airlock-proj"

\* the mounts sequence a layer declares, if it declares one
LayerMounts(local, base) ==
    IF local # None THEN local[1] ELSE IF base # None THEN base[1] ELSE <<>>

\* C19: the mounts of the configuration Load returns are the override's
\* sequence when the override declares mounts, even an empty one, and the
\* base's sequence unchanged otherwise; the two are never concatenated.
C19_MountsReplaced ==
    ConfigLoaded =>
        cfg[1].Mounts = LayerMounts(LocalLayer.mounts, BaseLayer.mounts)

\* a base with two mounts and an override with one gave the override's one
C19_Witness ==
    /\ ConfigLoaded
    /\ BaseLayer.mounts = Some(<<MountWork, MountData>>)
    /\ LocalLayer.mounts = Some(<<MountLocal>>)
    /\ cfg[1].Mounts = <<MountLocal>>

\* the host paths of the project /w/proj: the sources of CreateMounts
\* resolved against the project root
ResolvedSource ==
    ("." :> "/w/proj") @@ ("/other" :> "/other") @@ ("/data" :> "/data")
    @@ ("./x" :> "/w/proj/x")

ExpectedMount(m) ==
    ResolvedSource[m.Source] \o ":" \o m.Target \o ":"
    \o (IF m.Mode = "" THEN "rw" ELSE m.Mode) \o ",Z"

\* v is, from position off + 1 on, the home mount, the cache mount, the
\* explicit mounts of c in their order, and the masking entry
OrderedFrom(v, off, c, u) ==
    /\ Len(v) = off + 3 + Len(c.Mounts)
    /\ v[off + 1] = "/w/proj/.airlock/home:" \o u.Home \o ":Z"
    /\ v[off + 2] = "/w/proj/.airlock/cache:" \o u.Home \o "/.cache:Z"
    /\ \A i \in 1..Len(c.Mounts) :
          v[off + 2 + i] = ExpectedMount(c.Mounts[i])
    /\ v[Len(v)] = u.WorkDir \o "/.airlock"

Ordered(v, c, u) ==
    IF ExplicitOn(c, u.WorkDir) = {}
    THEN v[1] = "/w/proj:" \o u.WorkDir \o ":Z" /\ OrderedFrom(v, 1, c, u)
    ELSE OrderedFrom(v, 0, c, u)

\* C26: the -v arguments of `run` are, in this order: the workdir mount
\* (when no explicit mount replaces it), the home mount on the user's home,
\* the cache mount on <home>/.cache, every explicit mount in its declared
\* order with a relative source resolved against the project root and an
\* empty mode given as rw, and the masking entry.
C26_MountOrder ==
    \A k \in Ops(log[1], "run") :
        Ordered(MountsOfRun(log[1], k), cfg[1], userConfig[1])

\* `run` with the default workdir mount and two explicit mounts, the second
\* with a relative source
C26_Witness ==
    /\ Count(log[1], "run") = 1
    /\ userConfig[1].WorkDir = "/workspace"
    /\ userConfig[1].Home = "/home/dev"
    /\ cfg[1].Mounts =
          <<[Source |-> "/data", Target |-> "/opt", Mode |-> "ro"],
            [Source |-> "./x", Target |-> "/workspace/.airlock",
             Mode |-> "rw"]>>
    /\ \A k \in Ops(log[1], "run") :
          MountsOfRun(log[1], k) =
              <<"/w/proj:/workspace:Z",
                "/w/proj/.airlock/home:/home/dev:Z",
                "/w/proj/.airlock/cache:/home/dev/.cache:Z",
                "/data:/opt:ro,Z",
                "/w/proj/x:/workspace/.airlock:rw,Z",
                "/workspace/.airlock">>

\* the working directory the image of the configuration declares, and the
\* sandbox root used when it declares none
DeclaredWorkDir == images[imageOf(cfg[1])].WorkingDir
SandboxRoot == "/workspace"
ExpectedWorkDir ==
    IF DeclaredWorkDir # "" THEN DeclaredWorkDir ELSE SandboxRoot

\* C21: the in-container working directory used by `run` for -w, for
\* WORKDIR and for the masking path is never empty: it is the image's
\* declared working directory, and /workspace when the image declares none.
C21_WorkDirNeverEmpty ==
    \A k \in Ops(log[1], "run") :
        /\ log[1][k].args.w # ""
        /\ log[1][k].args.w = ExpectedWorkDir
        /\ SetOnce(EnvOfRun(log[1], k), "WORKDIR", ExpectedWorkDir)
        /\ MountsOfRun(log[1], k)[Len(MountsOfRun(log[1], k))]
              = ExpectedWorkDir \o "/.airlock"

\* the ports entries the configuration file declares, and the -p argument
\* of one entry
DeclaredPorts == IF BaseLayer.ports = None THEN <<>> ELSE BaseLayer.ports[1]
PortArg(entry) == entry.host \o ":" \o entry.container

\* C22: for every ports entry {host, container} of the configuration, the
\* `run` command Up issues to create the container has an argument
\* -p host:container.
C22_PortsPublished ==
    \A k \in Ops(log[1], "run") :
        \A i \in DOMAIN DeclaredPorts :
            \E j \in DOMAIN log[1][k].args.p :
                log[1][k].args.p[j] = PortArg(DeclaredPorts[i])

-----------------------------------------------------------------------------
\* Load on configurations that set the fields Load has defaults for.

ExplicitBuild ==
    [context |-> Some("./src"), containerfile |-> Some("./src/Containerfile"),
     tag |-> Some("my-tag:latest")]

DefaultsBaseDocs ==
    {[Doc0 EXCEPT !.name = n, !.image = i, !.build = b, !.home = h,
                  !.cache = c, !.workdir = w, !.mounts = m] :
        n \in {None, Some("app")},
        i \in {None, Some("my-image:latest")},
        b \in {None, Some(BuildNode), Some(ExplicitBuild),
               Some([BuildNode EXCEPT !.context = Some("./ctx")])},
        h \in {None, Some("./.airlock/myhome")},
        c \in {None, Some("/var/mycache")},
        w \in {None, Some("/myworkspace")},
        m \in {None, Some(<<MountWork>>), Some(<<MountData, MountWork>>)}}

DefaultsLocalFiles ==
    {[kind |-> "none"]}
    \cup {YamlFile([Doc0 EXCEPT !.home = h, !.build = b]) :
            h \in {None, Some("/local/home")},
            b \in {None, Some([BuildNode EXCEPT !.tag = Some("t:2")])}}

InitDefaults ==
    /\ \E base \in DefaultsBaseDocs, local \in DefaultsLocalFiles,
          cf \in BOOLEAN :
          fs = LayeredFs(base, local, cf)
    /\ cwd = "/w/proj"
    /\ pathBins = {"podman", "docker"}
    /\ containers = EmptyMap
    /\ images = EmptyMap
    /\ ProcsAt("load", CommandLine(<<>>, "up", <<>>))
    /\ cfg = [p \in Procs |-> ZeroConfig]
    /\ eng = [p \in Procs |-> ""]
    /\ userConfig = [p \in Procs |-> NilUserConfig]
    /\ log = [p \in Procs |-> <<>>]

NextDefaults == MainLoadConfig(1)

SpecDefaults == InitDefaults /\ [][NextDefaults]_vars

\* a layer's build mapping, and a key of it after merging the layers
LayerBuild(doc) == IF doc.build = None THEN BuildNode ELSE doc.build[1]

\* the field has the value a layer set, if a layer set one
Kept(field, base, local) ==
    MergedScalar(base, local) # "" => field = MergedScalar(base, local)

BuildKept(b, base, local) ==
    /\ Kept(b.Context, base.context, local.context)
    /\ Kept(b.Containerfile, base.containerfile, local.containerfile)
    /\ Kept(b.Tag, base.tag, local.tag)

\* C23: the defaults of Load only fill fields no layer set: configured
\* build.context, build.containerfile, build.tag, home, cache, workdir and
\* mounts are returned unchanged, and a configuration that sets only image
\* is returned with that image and no build section, even when a
\* Containerfile exists.
C23_DefaultsOnlyFill ==
    LoadReturned =>
        /\ Kept(cfg[1].HomeDir, BaseLayer.home, LocalLayer.home)
        /\ Kept(cfg[1].CacheDir, BaseLayer.cache, LocalLayer.cache)
        /\ Kept(cfg[1].WorkDir, BaseLayer.workdir, LocalLayer.workdir)
        /\ cfg[1].Mounts = LayerMounts(LocalLayer.mounts, BaseLayer.mounts)
        /\ BaseLayer.build # None \/ LocalLayer.build # None =>
              /\ cfg[1].Build # None
              /\ BuildKept(cfg[1].Build[1], LayerBuild(BaseLayer),
                           LayerBuild(LocalLayer))
        /\ BaseLayer.build = None /\ LocalLayer.build = None
           /\ MergedScalar(BaseLayer.image, LocalLayer.image) # "" =>
              /\ cfg[1].Image = MergedScalar(BaseLayer.image, LocalLayer.image)
              /\ cfg[1].Build = None

\* Load returned the explicit build section, home, cache, workdir and mounts
\* of the base file, next to a Containerfile
C23_Witness ==
    /\ LoadReturned
    /\ ContainerfilePath \in DOMAIN fs
    /\ BaseLayer.build = Some(ExplicitBuild)
    /\ LocalPath \notin DOMAIN fs
    /\ cfg[1].Build = Some([Context |-> "./src",
                            Containerfile |-> "./src/Containerfile",
                            Tag |-> "my-tag:latest"])
    /\ cfg[1].HomeDir = "./.airlock/myhome"
    /\ cfg[1].CacheDir = "/var/mycache"
    /\ cfg[1].WorkDir = "/myworkspace"
    /\ cfg[1].Mounts = <<MountData, MountWork>>

-----------------------------------------------------------------------------
\* Two `airlock up` processes on the same project, interleaved at the
\* engine commands.

InitRace ==
    /\ \/ /\ fs = InitializedFs(DocImage)
          /\ images = ("img:1" :> PulledConfig)
       \/ /\ fs = InitializedFs(DocBuild)
          /\ images = EmptyMap
    /\ cwd = "/w/proj"
    /\ pathBins = {"podman", "docker"}
    /\ containers \in InitialContainers
    /\ pc = [p \in Procs |-> "load"]
    /\ osArgs = [p \in Procs |-> CommandLine(<<>>, "up", <<>>)]
    /\ s = [p \in Procs |-> <<>>]
    /\ envVars = [p \in Procs |-> <<>>]
    /\ cfg = [p \in Procs |-> ZeroConfig]
    /\ eng = [p \in Procs |-> ""]
    /\ userConfig = [p \in Procs |-> NilUserConfig]
    /\ log = [p \in Procs |-> <<>>]
    /\ exit = [p \in Procs |-> 0]
    /\ prev = [p \in Procs |-> NoSummary]

NextRace ==
    \E p \in Procs :
        \/ MainLoadConfig(p)
        \/ MainDetectEngine(p)
        \/ UpBuild(p)
        \/ UpInspect(p)
        \/ UpMkdir(p)
        \/ UpExists(p)
        \/ UpCreate(p)
        \/ UpRunning(p)
        \/ UpStart(p)

SpecRace == InitRace /\ [][NextRace]_vars

\* the last command of L is a `run` the engine rejected for its name
RunRejected(L) ==
    /\ L # <<>>
    /\ L[Len(L)].op = "run"
    /\ ~L[Len(L)].ok
    /\ ~L[Len(L)].fault

\* process p has finished; no engine command of it failed except a `run`
\* for a name in use, and its state directories could be made
Finished(p) ==
    /\ pc[p] = "done"
    /\ NoFault(log[p])
    /\ exit[p] = 0 \/ RunRejected(log[p])

\* the `run` commands of both processes that created a container
CreatedBy(p) == {i \in Ops(log[p], "run") : log[p][i].ok}
Created == UNION {{<<p, i>> : i \in CreatedBy(p)} : p \in Procs}

\* C25: with two Up invocations on the same project interleaved at single
\* engine commands, and an engine that rejects `run` for a name in use and
\* fails no other command, once both have finished there is one container
\* of the derived name, it is Running, and at most one `run` created it.
C25_RaceConverges ==
    (\A p \in Procs : Finished(p)) =>
        /\ IsUp("airlock-proj")
        /\ Cardinality(Created) <= 1
        /\ \E p \in Procs : exit[p] = 0

\* both processes saw no container; one created it, the other's `run` was
\* rejected
C25_Witness ==
    /\ \A p \in Procs : Finished(p)
    /\ exit[1] = 0
    /\ RunRejected(log[2])
    /\ Cardinality(Created) = 1
    /\ IsUp("airlock-proj")

-----------------------------------------------------------------------------
\* `airlock init` and the commands that load the configuration after it.

InitNames == {<<>>, <<"app">>, <<"My App">>}

\* what the directory /w/proj can hold before init
ExistingFiles ==
    {(BasePath :> YamlFile(DocImage)),
     (LocalPath :> YamlFile(Doc0)),
     (ContainerfilePath :> [kind |-> "data"]),
     ("/w/proj/.gitignore" :> [kind |-> "text", lines |-> {"*.o"}])}

RECURSIVE MergeAll(_)
MergeAll(S) ==
    IF S = {} THEN EmptyMap
    ELSE MergeAll(S \ {CHOOSE f \in S : TRUE}) @@ (CHOOSE f \in S : TRUE)

InitCommandLines ==
    {CommandLine(<<>>, "init", n) : n \in InitNames}
    \cup {CommandLine(<<>>, c, <<>>) :
            c \in {"up", "enter", "down", "list", "info"}}
    \cup {CommandLine(<<>>, "exec", <<"--", "ls">>)}

InitInit ==
    /\ fs \in {MergeAll(S) : S \in SUBSET ExistingFiles}
    /\ cwd = "/w/proj"
    /\ pathBins = {"podman", "docker"}
    /\ containers = EmptyMap
    /\ images = EmptyMap
    /\ InitProcs

NextInit ==
    \/ \E line \in InitCommandLines : Invoke(1, line)
    \/ MainParse(1)
    \/ MainInit(1)
    \/ MainLoadConfig(1)

SpecInit == InitInit /\ [][NextInit]_vars

\* both configuration files are the ones InitFiles writes
Generated ==
    /\ BasePath \in DOMAIN fs
    /\ LocalPath \in DOMAIN fs
    /\ \E n \in {"my-project", "app", "My App"} :
          fs[BasePath] = YamlFile(defaultYAML(n))
    /\ fs[LocalPath] = YamlFile(defaultLocalYAML)

\* loadConfig has returned in a command that loads the configuration
LoadingDone ==
    /\ osArgs[1].cmd \in {"up", "enter", "exec", "down", "list", "info"}
    /\ pc[1] \in {"detect", "done"}

\* C29: the base configuration and the local override InitFiles writes
\* into a directory that has none are accepted by Load: a command that loads
\* the configuration after `init` does not fail with a configuration error.
C29_InitThenLoad ==
    Generated /\ LoadingDone => pc[1] = "detect"

-----------------------------------------------------------------------------
\* `airlock up` in two projects, each given by the path of its
\* configuration file.

ProjectDirs == {"/w/proj", "/v/proj", "/v/app"}

ProjectDocs ==
    {[Doc0 EXCEPT !.name = n, !.image = Some("img:1")] :
        n \in {None, Some("app")}}

ConfigIn(dir) == dir \o "/airlock.yaml"

InitProjectsAt(d1, d2, doc1, doc2) ==
    /\ fs = (ConfigIn(d1) :> YamlFile(doc1)) @@ (ConfigIn(d2) :> YamlFile(doc2))
    /\ osArgs = [p \in Procs |->
                    [CommandLine(<<>>, "up", <<>>)
                        EXCEPT !.config = ConfigIn(IF p = 1 THEN d1 ELSE d2)]]

InitProjects ==
    /\ \E d1 \in ProjectDirs, doc1 \in ProjectDocs, doc2 \in ProjectDocs :
          \E d2 \in ProjectDirs \ {d1} : InitProjectsAt(d1, d2, doc1, doc2)
    /\ cwd = "/"
    /\ pathBins = {"podman", "docker"}
    /\ containers = EmptyMap
    /\ images = ("img:1" :> PulledConfig)
    /\ pc = [p \in Procs |-> "load"]
    /\ s = [p \in Procs |-> <<>>]
    /\ envVars = [p \in Procs |-> <<>>]
    /\ cfg = [p \in Procs |-> ZeroConfig]
    /\ eng = [p \in Procs |-> ""]
    /\ userConfig = [p \in Procs |-> NilUserConfig]
    /\ log = [p \in Procs |-> <<>>]
    /\ exit = [p \in Procs |-> 0]
    /\ prev = [p \in Procs |-> NoSummary]

NextProjects ==
    \E p \in Procs :
        \/ MainLoadConfig(p)
        \/ MainDetectEngine(p)
        \/ UpBuild(p)
        \/ UpInspect(p)
        \/ UpMkdir(p)
        \/ UpExists(p)
        \/ UpCreate(p)
        \/ UpRunning(p)
        \/ UpStart(p)

SpecProjects == InitProjects /\ [][NextProjects]_vars

\* the container Up left for process p mounts p's project directory as the
\* working directory
OwnContainer(p, name) ==
    /\ name \in DOMAIN containers
    /\ HasPrefix(containers[name].run.v[1], cfg[p].ProjectDir \o ":")

\* C30: two projects anchored at different directories never resolve to
\* the same container name, so an Up that returns 0 leaves its project a
\* container with the project's own mounts, never the other project's.
C30_ProjectsDoNotCollide ==
    /\ cfg[1] # ZeroConfig /\ cfg[2] # ZeroConfig =>
          containerName(cfg[1]) # containerName(cfg[2])
    /\ \A p \in Procs :
          pc[p] = "done" /\ exit[p] = 0 /\ NoFault(log[p]) =>
              OwnContainer(p, containerName(cfg[p]))

====
